---- MODULE Spec2Model ----
(***************************************************************************)
(* State-machine model of QBDI's VM front end (src/src/Engine/VM.cpp):     *)
(* the memory-callback registry, its two gate callbacks, the registration  *)
(* and deletion operations, run(), and copies of a VM.  The Engine, Range  *)
(* and RangeSet classes are not part of the sources at hand; they are      *)
(* modelled after the specification document.                              *)
(***************************************************************************)
EXTENDS Integers, Sequences, FiniteSets, TLC

(***************************************************************************)
(* Bounds of the model.                                                    *)
(***************************************************************************)
\* width of an event id (uint32_t in the source), scaled down
IdBits == 4
\* largest value of an rword address, scaled down; rword arithmetic is
\* modulo MaxAddr + 1
MaxAddr == 2
\* largest number of entries kept in memCBInfos
MaxEntries == 2
\* largest value of the engine's rule counter
MaxEngineId == 6
\* largest size of one memory access
MaxSize == 2
\* largest number of memory accesses of one instruction
MaxAccs == 2
\* largest code address
MaxCodeAddr == 1
\* largest number of range-callback registrations where the wrap-around of
\* memCBID is not explored
MaxMemCBID == 3
\* largest number of user callbacks registered where their order is
\* observed
MaxCallbacks == 3
\* width of an instruction id (uint16_t in the source), scaled down
InstIdBits == 2
MaxHostPC == 2
MaxReg == 1
MaxLines == 2
\* BUFFER_SIZE of getRemoteProcessMaps, 256 in the source
BUFFER_SIZE == 24

(***************************************************************************)
(* Program constants.                                                      *)
(***************************************************************************)
IdMod == 2 ^ IdBits
EVENTID_VIRTCB_MASK == 2 ^ (IdBits - 1)
INVALID_EVENTID == IdMod - 1
RwordMod == MaxAddr + 1
InstIdMod == 2 ^ InstIdBits

MEMORY_READ == {"R"}
MEMORY_WRITE == {"W"}
MEMORY_READ_WRITE == {"R", "W"}
MemoryAccessType == SUBSET {"R", "W"}

CONTINUE == 0
BREAK_TO_VM == 1
STOP == 2
VMAction == {CONTINUE, BREAK_TO_VM, STOP}

PREINST == "PREINST"
POSTINST == "POSTINST"
InstPosition == {PREINST, POSTINST}

nullptr == "nullptr"
\* user callbacks; each one is identified with the VMAction it returns
UserCbks == {"cbContinue", "cbBreak", "cbStop"}

VMIds == {1, 2}
Addr == 0 .. MaxAddr
CodeAddr == 0 .. MaxCodeAddr

VARIABLES
  vm,      \* vm[v]: the fields of VM object v and of the Engine it owns
  alive,   \* alive[v]: VM object v has been constructed
  pc,      \* pc[v]: "host" between calls, "engine" inside engine->run
  stopCB,  \* stopCB[v]: the local variable stopCB of VM::run
  preRun,  \* preRun[v]: the state of VM v when its last run was entered
  fired,   \* fired[v]: callbacks invoked for the last instruction, in order
  curInst, \* curInst[v]: the last instruction the engine executed
  issued,  \* issued[v][k]: history of range-callback id k
  last,    \* the last operation called, with its arguments and result
  bb,      \* the locals of the call of getBBMemoryAccess in progress
  blk,     \* the break-to-host sequence being executed in an ExecBlock
  call,    \* the GPR state of VM 1 and the call of callA in progress
  pmaps    \* the call of getRemoteProcessMaps in progress

vars ==
  <<vm, alive, pc, stopCB, preRun, fired, curInst, issued, last, bb, blk,
    call, pmaps>>

(***************************************************************************)
(* Sequence helpers.                                                       *)
(***************************************************************************)
RemoveAt(seq, i) == SubSeq(seq, 1, i - 1) \o SubSeq(seq, i + 1, Len(seq))

\* the element of the singleton S; in The({F(x) : x \in {e}}) the value of
\* e is computed once
The(S) == CHOOSE r \in S : TRUE

\* the callback returned value of a user callback
CbkRet(cbk) ==
  CASE cbk = "cbContinue" -> CONTINUE
    [] cbk = "cbBreak" -> BREAK_TO_VM
    [] cbk = "cbStop" -> STOP
    [] cbk = "stopCallback" -> STOP
    [] OTHER -> CONTINUE

\* registration rank of the next callback; ranks are 1..n over the live
\* engine rules and registry entries (observation only)
NextOrd(s) == Len(s.instrRules) + Len(s.memCBInfos) + 1

DropOrd(seq, d) ==
  [i \in DOMAIN seq |->
     IF seq[i].ord > d THEN [seq[i] EXCEPT !.ord = @ - 1] ELSE seq[i]]

(***************************************************************************)
(* The VM object after VM::VM(cpu, mattrs, opts).                          *)
(***************************************************************************)
NewVM ==
  [instrRules |-> <<>>, instrRulesCounter |-> 0, vmCallbacks |-> <<>>,
   memoryLoggingLevel |-> {}, memCBInfos |-> <<>>, memCBID |-> 0,
   memReadGateCBID |-> INVALID_EVENTID,
   memWriteGateCBID |-> INVALID_EVENTID,
   instrCBInfos |-> <<>>]

(***************************************************************************)
(* Engine (modelled after the specification).                              *)
(***************************************************************************)
Engine_addInstrRule(s, cond, arg, cbk, pos, data) ==
  LET id == s.instrRulesCounter
      rule == [id |-> id, cond |-> cond, arg |-> arg, cbk |-> cbk,
               pos |-> pos, data |-> data, ord |-> NextOrd(s)]
  IN [s |-> [s EXCEPT !.instrRules = Append(@, rule),
                      !.instrRulesCounter = id + 1],
      ret |-> id]

Engine_addVMEventCB(s, mask, cbk) ==
  LET id == s.instrRulesCounter
  IN [s |-> [s EXCEPT !.vmCallbacks = Append(@, [id |-> id, mask |-> mask,
                                                 cbk |-> cbk]),
                      !.instrRulesCounter = id + 1],
      ret |-> id]

Engine_deleteInstrumentation(s, id) ==
  LET ri == {i \in DOMAIN s.instrRules : s.instrRules[i].id = id}
      vi == {i \in DOMAIN s.vmCallbacks : s.vmCallbacks[i].id = id}
  IN IF ri # {}
       THEN LET i == CHOOSE i \in ri : \A j \in ri : i <= j
                d == s.instrRules[i].ord
            IN [s |-> [s EXCEPT
                         !.instrRules = DropOrd(RemoveAt(@, i), d),
                         !.memCBInfos = DropOrd(@, d)],
                ret |-> TRUE]
     ELSE IF vi # {}
       THEN LET i == CHOOSE i \in vi : \A j \in vi : i <= j
            IN [s |-> [s EXCEPT !.vmCallbacks = RemoveAt(@, i)],
                ret |-> TRUE]
     ELSE [s |-> s, ret |-> FALSE]

Engine_deleteAllInstrumentations(s) ==
  [s EXCEPT !.instrRules = <<>>, !.vmCallbacks = <<>>]

(***************************************************************************)
(* VM registration operations; each maps a VM state and the arguments to   *)
(* the new state s and the returned value ret.                             *)
(***************************************************************************)
getInstrRuleMemAccessRead(s) ==
  Engine_addInstrRule(s, "MemAccessRead", <<>>, "record", PREINST, 0).s

getInstrRuleMemAccessWrite(s) ==
  Engine_addInstrRule(s, "MemAccessWrite", <<>>, "record", POSTINST, 0).s

\* recordMemoryAccess adding the rules whatever memoryLoggingLevel is
recordMemoryAccess_Always(s, type) ==
  LET read(s0) ==
        IF "R" \in type
          THEN getInstrRuleMemAccessRead(
                 [s0 EXCEPT !.memoryLoggingLevel = @ \cup MEMORY_READ])
          ELSE s0
      write(s1) ==
        IF "W" \in type
          THEN getInstrRuleMemAccessWrite(
                 [s1 EXCEPT !.memoryLoggingLevel = @ \cup MEMORY_WRITE])
          ELSE s1
  IN [s |-> The({write(s1) : s1 \in {read(s)}}), ret |-> TRUE]

recordMemoryAccess(s, type) ==
  LET read(s0) ==
        IF "R" \in type /\ ~("R" \in s0.memoryLoggingLevel)
          THEN getInstrRuleMemAccessRead(
                 [s0 EXCEPT !.memoryLoggingLevel = @ \cup MEMORY_READ])
          ELSE s0
      write(s1) ==
        IF "W" \in type /\ ~("W" \in s1.memoryLoggingLevel)
          THEN getInstrRuleMemAccessWrite(
                 [s1 EXCEPT !.memoryLoggingLevel = @ \cup MEMORY_WRITE])
          ELSE s1
  IN [s |-> The({write(s1) : s1 \in {read(s)}}), ret |-> TRUE]

\* addMemAccessCB registering every callback at POSTINST
addMemAccessCB_AllPost(s, type, cbk, data) ==
  IF cbk = nullptr THEN [s |-> s, ret |-> INVALID_EVENTID]
  ELSE LET switch(s1) ==
             CASE type = MEMORY_READ ->
                    Engine_addInstrRule(s1, "DoesReadAccess", <<>>, cbk,
                                        POSTINST, data)
               [] type = MEMORY_WRITE ->
                    Engine_addInstrRule(s1, "DoesWriteAccess", <<>>, cbk,
                                        POSTINST, data)
               [] type = MEMORY_READ_WRITE ->
                    Engine_addInstrRule(s1, "OrReadWriteAccess", <<>>, cbk,
                                        POSTINST, data)
               [] OTHER -> [s |-> s1, ret |-> INVALID_EVENTID]
       IN The({switch(s1) : s1 \in {recordMemoryAccess(s, type).s}})

\* addMemAccessCB without the call of recordMemoryAccess
addMemAccessCB_NoRecord(s, type, cbk, data) ==
  IF cbk = nullptr THEN [s |-> s, ret |-> INVALID_EVENTID]
  ELSE CASE type = MEMORY_READ ->
              Engine_addInstrRule(s, "DoesReadAccess", <<>>, cbk, PREINST,
                                  data)
         [] type = MEMORY_WRITE ->
              Engine_addInstrRule(s, "DoesWriteAccess", <<>>, cbk, POSTINST,
                                  data)
         [] type = MEMORY_READ_WRITE ->
              Engine_addInstrRule(s, "OrReadWriteAccess", <<>>, cbk,
                                  POSTINST, data)
         [] OTHER -> [s |-> s, ret |-> INVALID_EVENTID]

addMemAccessCB(s, type, cbk, data) ==
  IF cbk = nullptr THEN [s |-> s, ret |-> INVALID_EVENTID]
  ELSE LET switch(s1) ==
             CASE type = MEMORY_READ ->
                    Engine_addInstrRule(s1, "DoesReadAccess", <<>>, cbk,
                                        PREINST, data)
               [] type = MEMORY_WRITE ->
                    Engine_addInstrRule(s1, "DoesWriteAccess", <<>>, cbk,
                                        POSTINST, data)
               [] type = MEMORY_READ_WRITE ->
                    Engine_addInstrRule(s1, "OrReadWriteAccess", <<>>, cbk,
                                        POSTINST, data)
               [] OTHER -> [s |-> s1, ret |-> INVALID_EVENTID]
       IN The({switch(s1) : s1 \in {recordMemoryAccess(s, type).s}})

\* addMemRangeCB installing the write gate for MEMORY_WRITE only
addMemRangeCB_WriteOnly(s, self, start, end, type, cbk) ==
  IF ~(start < end) THEN [s |-> s, ret |-> INVALID_EVENTID]
  ELSE IF type \cap MEMORY_READ_WRITE = {}
    THEN [s |-> s, ret |-> INVALID_EVENTID]
  ELSE IF cbk = nullptr THEN [s |-> s, ret |-> INVALID_EVENTID]
  ELSE
    LET setReadGate(r) == [r.s EXCEPT !.memReadGateCBID = r.ret]
        setWriteGate(r) == [r.s EXCEPT !.memWriteGateCBID = r.ret]
        readGate(s0) ==
          IF type = MEMORY_READ /\ s0.memReadGateCBID = INVALID_EVENTID
            THEN The({setReadGate(r) :
                        r \in {addMemAccessCB(s0, MEMORY_READ,
                                              "memReadGate", self)}})
            ELSE s0
        writeGate(s1) ==
          IF type = MEMORY_WRITE /\ s1.memWriteGateCBID = INVALID_EVENTID
            THEN The({setWriteGate(r) :
                        r \in {addMemAccessCB(s1, MEMORY_READ_WRITE,
                                              "memWriteGate", self)}})
            ELSE s1
        add(s2) ==
          LET id == s2.memCBID
              s3 == [s2 EXCEPT !.memCBID = (id + 1) % IdMod]
          IN IF ~(id < EVENTID_VIRTCB_MASK)
               THEN [s |-> s3, ret |-> INVALID_EVENTID]
               ELSE [s |-> [s3 EXCEPT !.memCBInfos =
                              Append(@, [id |-> id, type |-> type,
                                         start |-> start, end |-> end,
                                         cbk |-> cbk, ord |-> NextOrd(s3)])],
                     ret |-> id + EVENTID_VIRTCB_MASK]
    IN The({add(s2) : s2 \in {writeGate(s1) : s1 \in {readGate(s)}}})

\* self is the identity of the vector memCBInfos.get() points to
addMemRangeCB(s, self, start, end, type, cbk) ==
  IF ~(start < end) THEN [s |-> s, ret |-> INVALID_EVENTID]
  ELSE IF type \cap MEMORY_READ_WRITE = {}
    THEN [s |-> s, ret |-> INVALID_EVENTID]
  ELSE IF cbk = nullptr THEN [s |-> s, ret |-> INVALID_EVENTID]
  ELSE
    LET setReadGate(r) == [r.s EXCEPT !.memReadGateCBID = r.ret]
        setWriteGate(r) == [r.s EXCEPT !.memWriteGateCBID = r.ret]
        readGate(s0) ==
          IF type = MEMORY_READ /\ s0.memReadGateCBID = INVALID_EVENTID
            THEN The({setReadGate(r) :
                        r \in {addMemAccessCB(s0, MEMORY_READ,
                                              "memReadGate", self)}})
            ELSE s0
        writeGate(s1) ==
          IF "W" \in type /\ s1.memWriteGateCBID = INVALID_EVENTID
            THEN The({setWriteGate(r) :
                        r \in {addMemAccessCB(s1, MEMORY_READ_WRITE,
                                              "memWriteGate", self)}})
            ELSE s1
        add(s2) ==
          LET id == s2.memCBID
              s3 == [s2 EXCEPT !.memCBID = (id + 1) % IdMod]
          IN IF ~(id < EVENTID_VIRTCB_MASK)
               THEN [s |-> s3, ret |-> INVALID_EVENTID]
               ELSE [s |-> [s3 EXCEPT !.memCBInfos =
                              Append(@, [id |-> id, type |-> type,
                                         start |-> start, end |-> end,
                                         cbk |-> cbk, ord |-> NextOrd(s3)])],
                     ret |-> id + EVENTID_VIRTCB_MASK]
    IN The({add(s2) : s2 \in {writeGate(s1) : s1 \in {readGate(s)}}})

addMemAddrCB(s, self, address, type, cbk) ==
  IF cbk = nullptr THEN [s |-> s, ret |-> INVALID_EVENTID]
  ELSE addMemRangeCB(s, self, address, (address + 1) % RwordMod, type, cbk)

\* deleteInstrumentation testing the bit below the most significant one
deleteInstrumentation_LowerBit(s, id) ==
  IF (id \div (EVENTID_VIRTCB_MASK \div 2)) % 2 = 1
    THEN LET id2 == id - EVENTID_VIRTCB_MASK \div 2
             hit == {i \in DOMAIN s.memCBInfos : s.memCBInfos[i].id = id2}
         IN IF hit # {}
              THEN LET i == CHOOSE i \in hit : \A j \in hit : i <= j
                       d == s.memCBInfos[i].ord
                   IN [s |-> [s EXCEPT
                                !.memCBInfos = DropOrd(RemoveAt(@, i), d),
                                !.instrRules = DropOrd(@, d)],
                       ret |-> TRUE]
              ELSE [s |-> s, ret |-> FALSE]
    ELSE Engine_deleteInstrumentation(
           [s EXCEPT !.instrCBInfos =
              SelectSeq(@, LAMBDA x : x.id # id)], id)

\* deleteInstrumentation clearing one bit too many of the id
deleteInstrumentation_WideMask(s, id) ==
  IF id >= EVENTID_VIRTCB_MASK
    THEN LET id2 == id % (EVENTID_VIRTCB_MASK \div 2)
             hit == {i \in DOMAIN s.memCBInfos : s.memCBInfos[i].id = id2}
         IN IF hit # {}
              THEN LET i == CHOOSE i \in hit : \A j \in hit : i <= j
                       d == s.memCBInfos[i].ord
                   IN [s |-> [s EXCEPT
                                !.memCBInfos = DropOrd(RemoveAt(@, i), d),
                                !.instrRules = DropOrd(@, d)],
                       ret |-> TRUE]
              ELSE [s |-> s, ret |-> FALSE]
    ELSE Engine_deleteInstrumentation(
           [s EXCEPT !.instrCBInfos =
              SelectSeq(@, LAMBDA x : x.id # id)], id)

deleteInstrumentation(s, id) ==
  IF id >= EVENTID_VIRTCB_MASK
    THEN LET id2 == id - EVENTID_VIRTCB_MASK
             hit == {i \in DOMAIN s.memCBInfos : s.memCBInfos[i].id = id2}
         IN IF hit # {}
              THEN LET i == CHOOSE i \in hit : \A j \in hit : i <= j
                       d == s.memCBInfos[i].ord
                   IN [s |-> [s EXCEPT
                                !.memCBInfos = DropOrd(RemoveAt(@, i), d),
                                !.instrRules = DropOrd(@, d)],
                       ret |-> TRUE]
              ELSE [s |-> s, ret |-> FALSE]
    ELSE Engine_deleteInstrumentation(
           [s EXCEPT !.instrCBInfos =
              SelectSeq(@, LAMBDA x : x.id # id)], id)

\* deleteAllInstrumentations leaving memoryLoggingLevel as it is
deleteAllInstrumentations_KeepLevel(s) ==
  [Engine_deleteAllInstrumentations(s) EXCEPT
     !.memReadGateCBID = INVALID_EVENTID,
     !.memWriteGateCBID = INVALID_EVENTID,
     !.memCBInfos = <<>>,
     !.instrCBInfos = <<>>]

deleteAllInstrumentations(s) ==
  [Engine_deleteAllInstrumentations(s) EXCEPT
     !.memReadGateCBID = INVALID_EVENTID,
     !.memWriteGateCBID = INVALID_EVENTID,
     !.memCBInfos = <<>>,
     !.instrCBInfos = <<>>,
     !.memoryLoggingLevel = {}]

(***************************************************************************)
(* Registration of instrumentation rules and code callbacks.               *)
(***************************************************************************)
\* VM::addInstrRule(InstrRuleCallback, ...): the rule covers [0, (rword)-1)
addInstrRule(s, cbk) ==
  Engine_addInstrRule(s, "InstrRuleUser", <<0, MaxAddr>>, cbk, "USER", 0)

\* VM::addInstrRule(InstrRuleCallbackC, ...)
addInstrRuleC(s, cbk) ==
  LET info(r) ==
        [s |-> [r.s EXCEPT !.instrCBInfos =
                  Append(@, [id |-> r.ret, start |-> 0, end |-> MaxAddr,
                             cbk |-> cbk])],
         ret |-> r.ret]
  IN The({info(r) : r \in {addInstrRule(s, "InstrCBGateC")}})

\* VM::addInstrRuleRange(start, end, InstrRuleCallback, ...)
addInstrRuleRange(s, start, end, cbk) ==
  Engine_addInstrRule(s, "InstrRuleUser", <<start, end>>, cbk, "USER", 0)

\* VM::addInstrRuleRange(start, end, InstrRuleCallbackC, ...)
addInstrRuleRangeC(s, start, end, cbk) ==
  LET info(r) ==
        [s |-> [r.s EXCEPT !.instrCBInfos =
                  Append(@, [id |-> r.ret, start |-> start, end |-> end,
                             cbk |-> cbk])],
         ret |-> r.ret]
  IN The({info(r) :
            r \in {addInstrRuleRange(s, start, end, "InstrCBGateC")}})

addMnemonicCB(s, mnemonic, pos, cbk) ==
  IF mnemonic = nullptr THEN [s |-> s, ret |-> INVALID_EVENTID]
  ELSE IF cbk = nullptr THEN [s |-> s, ret |-> INVALID_EVENTID]
  ELSE Engine_addInstrRule(s, "MnemonicIs", <<mnemonic>>, cbk, pos, 0)

addCodeCB(s, pos, cbk) ==
  IF cbk = nullptr THEN [s |-> s, ret |-> INVALID_EVENTID]
  ELSE Engine_addInstrRule(s, "True", <<>>, cbk, pos, 0)

addCodeAddrCB(s, address, pos, cbk) ==
  IF cbk = nullptr THEN [s |-> s, ret |-> INVALID_EVENTID]
  ELSE Engine_addInstrRule(s, "AddressIs", <<address>>, cbk, pos, 0)

addCodeRangeCB(s, start, end, pos, cbk) ==
  IF ~(start < end) THEN [s |-> s, ret |-> INVALID_EVENTID]
  ELSE IF cbk = nullptr THEN [s |-> s, ret |-> INVALID_EVENTID]
  ELSE Engine_addInstrRule(s, "InstructionInRange", <<start, end>>, cbk,
                           pos, 0)

addVMEventCB(s, mask, cbk) ==
  IF ~(mask # 0) THEN [s |-> s, ret |-> INVALID_EVENTID]
  ELSE IF cbk = nullptr THEN [s |-> s, ret |-> INVALID_EVENTID]
  ELSE Engine_addVMEventCB(s, mask, cbk)

(***************************************************************************)
(* Copies of a VM.  The copy of the engine duplicates its rule tables and  *)
(* its counter; a rule keeps the data pointer it was registered with.      *)
(***************************************************************************)
\* the loop "for (const auto &p : *vm.instrCBInfos)" of both copies
RECURSIVE ReAddInstrCB(_, _, _)
ReAddInstrCB(s, infos, i) ==
  IF ~(i <= Len(infos)) THEN s
  ELSE LET next(s1) == ReAddInstrCB(s1, infos, i + 1)
       IN The({next(s1) :
                 s1 \in {addInstrRuleRangeC(
                           Engine_deleteInstrumentation(s, infos[i].id).s,
                           infos[i].start, infos[i].end, infos[i].cbk).s}})

\* VM::VM(const VM &vm): the state of the VM constructed
CopyVM(src) ==
  ReAddInstrCB(
    [instrRules |-> src.instrRules,
     instrRulesCounter |-> src.instrRulesCounter,
     vmCallbacks |-> src.vmCallbacks,
     memoryLoggingLevel |-> src.memoryLoggingLevel,
     memCBInfos |-> src.memCBInfos, memCBID |-> src.memCBID,
     memReadGateCBID |-> src.memReadGateCBID,
     memWriteGateCBID |-> src.memWriteGateCBID,
     instrCBInfos |-> <<>>],
    src.instrCBInfos, 1)

\* VM::operator=(const VM &vm): the state of *this after the assignment
AssignVM(dst, src) ==
  ReAddInstrCB(
    [dst EXCEPT !.instrRules = src.instrRules,
                !.instrRulesCounter = src.instrRulesCounter,
                !.vmCallbacks = src.vmCallbacks,
                !.memCBInfos = src.memCBInfos,
                !.memoryLoggingLevel = src.memoryLoggingLevel,
                !.memCBID = src.memCBID,
                !.memReadGateCBID = src.memReadGateCBID,
                !.memWriteGateCBID = src.memWriteGateCBID,
                !.instrCBInfos = <<>>],
    src.instrCBInfos, 1)

(***************************************************************************)
(* Instructions and the memory accesses the engine reports for them.       *)
(***************************************************************************)
Mnemonics == {"MOV"}

\* an access never wraps around the address space
MemoryAccess ==
  {a \in [accessAddress : Addr, size : 1 .. MaxSize,
          type : {MEMORY_READ, MEMORY_WRITE}] :
     a.accessAddress + a.size <= MaxAddr}

\* the accesses of one instruction, at most n of them, listed by address,
\* size and direction
AccessKey(a) == (a.accessAddress * (MaxSize + 1) + a.size) * 2
                + (IF "W" \in a.type THEN 1 ELSE 0)

AccessLists(n) ==
  {l \in UNION {[1 .. k -> MemoryAccess] : k \in 0 .. n} :
     \A i \in DOMAIN l : \A j \in DOMAIN l :
        i < j => AccessKey(l[i]) < AccessKey(l[j])}

Instructions(n) ==
  [address : CodeAddr, mnemonic : Mnemonics, accs : AccessLists(n)]

NoInst == [address |-> 0, mnemonic |-> "none", accs |-> <<>>]

\* Range<rword>(start, end), as the set of addresses it holds
Range(start, end) == {a \in Addr : start <= a /\ a < end}

\* RangeSet<rword>::overlaps(range), a RangeSet being a set of addresses
overlaps(rangeSet, range) == rangeSet \cap range # {}

\* the accesses recorded for the current instruction: a direction is
\* recorded only while its shadow rule is installed
getInstMemoryAccess(s, inst) ==
  LET rec(c) == \E i \in DOMAIN s.instrRules : s.instrRules[i].cond = c
  IN SelectSeq(inst.accs,
       LAMBDA a : \/ "R" \in a.type /\ rec("MemAccessRead")
                  \/ "W" \in a.type /\ rec("MemAccessWrite"))

\* PatchCondition::test
Matches(rule, inst) ==
  CASE rule.cond = "True" -> TRUE
    [] rule.cond = "AddressIs" -> inst.address = rule.arg[1]
    [] rule.cond = "InstructionInRange" ->
         rule.arg[1] <= inst.address /\ inst.address < rule.arg[2]
    [] rule.cond = "MnemonicIs" -> inst.mnemonic = rule.arg[1]
    [] rule.cond = "DoesReadAccess" ->
         \E i \in DOMAIN inst.accs : "R" \in inst.accs[i].type
    [] rule.cond = "DoesWriteAccess" ->
         \E i \in DOMAIN inst.accs : "W" \in inst.accs[i].type
    [] rule.cond = "OrReadWriteAccess" -> inst.accs # <<>>
    [] OTHER -> FALSE

(***************************************************************************)
(* The gates.                                                              *)
(***************************************************************************)
\* the loop of the gates walking the registry from its last entry
RECURSIVE GateLoop_Descending(_, _, _, _, _)
GateLoop_Descending(memCBInfos, hits, i, action, calls) ==
  IF ~(i <= Len(memCBInfos)) THEN [ret |-> action, calls |-> calls]
  ELSE LET k == Len(memCBInfos) + 1 - i
       IN IF k \in hits
            THEN LET ret == CbkRet(memCBInfos[k].cbk)
                 IN GateLoop_Descending(memCBInfos, hits, i + 1,
                      IF ret > action THEN ret ELSE action,
                      Append(calls, [idx |-> k, id |-> memCBInfos[k].id,
                                     ord |-> memCBInfos[k].ord,
                                     cbk |-> memCBInfos[k].cbk,
                                     ret |-> ret]))
            ELSE GateLoop_Descending(memCBInfos, hits, i + 1, action, calls)

\* the loop of the gates keeping the last result instead of the largest
RECURSIVE GateLoop_LastWins(_, _, _, _, _)
GateLoop_LastWins(memCBInfos, hits, i, action, calls) ==
  IF ~(i <= Len(memCBInfos)) THEN [ret |-> action, calls |-> calls]
  ELSE IF i \in hits
    THEN LET ret == CbkRet(memCBInfos[i].cbk)
         IN GateLoop_LastWins(memCBInfos, hits, i + 1, ret,
                     Append(calls, [idx |-> i, id |-> memCBInfos[i].id,
                                    ord |-> memCBInfos[i].ord,
                                    cbk |-> memCBInfos[i].cbk,
                                    ret |-> ret]))
    ELSE GateLoop_LastWins(memCBInfos, hits, i + 1, action, calls)

\* the loop "for (i = 0; i < memCBInfos->size(); i++)" of both gates, from
\* index i on; hits is the set of indices whose condition holds
RECURSIVE GateLoop(_, _, _, _, _)
GateLoop(memCBInfos, hits, i, action, calls) ==
  IF ~(i <= Len(memCBInfos)) THEN [ret |-> action, calls |-> calls]
  ELSE IF i \in hits
    THEN LET ret == CbkRet(memCBInfos[i].cbk)
         IN GateLoop(memCBInfos, hits, i + 1,
                     IF ret > action THEN ret ELSE action,
                     Append(calls, [idx |-> i, id |-> memCBInfos[i].id,
                                    ord |-> memCBInfos[i].ord,
                                    cbk |-> memCBInfos[i].cbk,
                                    ret |-> ret]))
    ELSE GateLoop(memCBInfos, hits, i + 1, action, calls)

\* memReadGate without the test of the READ bit of the accesses
memReadGate_AnyAccess(memCBInfos, memAccesses) ==
  LET readRange ==
        UNION {Range(memAccesses[j].accessAddress,
                     memAccesses[j].accessAddress + memAccesses[j].size) :
               j \in DOMAIN memAccesses}
      hits == {i \in DOMAIN memCBInfos :
                 /\ memCBInfos[i].type = MEMORY_READ
                 /\ overlaps(readRange, Range(memCBInfos[i].start,
                                              memCBInfos[i].end))}
  IN GateLoop(memCBInfos, hits, 1, CONTINUE, <<>>)

memReadGate(memCBInfos, memAccesses) ==
  LET readRange ==
        UNION {Range(memAccesses[j].accessAddress,
                     memAccesses[j].accessAddress + memAccesses[j].size) :
               j \in {j \in DOMAIN memAccesses :
                        "R" \in memAccesses[j].type}}
      hits == {i \in DOMAIN memCBInfos :
                 /\ memCBInfos[i].type = MEMORY_READ
                 /\ overlaps(readRange, Range(memCBInfos[i].start,
                                              memCBInfos[i].end))}
  IN GateLoop(memCBInfos, hits, 1, CONTINUE, <<>>)

\* memWriteGate testing the READ bit of the entry instead of comparing its
\* type with MEMORY_READ_WRITE
memWriteGate_ReadBit(memCBInfos, memAccesses) ==
  LET readRange ==
        UNION {Range(memAccesses[j].accessAddress,
                     memAccesses[j].accessAddress + memAccesses[j].size) :
               j \in {j \in DOMAIN memAccesses :
                        "R" \in memAccesses[j].type}}
      writeRange ==
        UNION {Range(memAccesses[j].accessAddress,
                     memAccesses[j].accessAddress + memAccesses[j].size) :
               j \in {j \in DOMAIN memAccesses :
                        "W" \in memAccesses[j].type}}
      hits == {i \in DOMAIN memCBInfos :
                 \/ /\ "W" \in memCBInfos[i].type
                    /\ overlaps(writeRange, Range(memCBInfos[i].start,
                                                  memCBInfos[i].end))
                 \/ /\ "R" \in memCBInfos[i].type
                    /\ overlaps(readRange, Range(memCBInfos[i].start,
                                                 memCBInfos[i].end))}
  IN GateLoop(memCBInfos, hits, 1, CONTINUE, <<>>)

memWriteGate(memCBInfos, memAccesses) ==
  LET readRange ==
        UNION {Range(memAccesses[j].accessAddress,
                     memAccesses[j].accessAddress + memAccesses[j].size) :
               j \in {j \in DOMAIN memAccesses :
                        "R" \in memAccesses[j].type}}
      writeRange ==
        UNION {Range(memAccesses[j].accessAddress,
                     memAccesses[j].accessAddress + memAccesses[j].size) :
               j \in {j \in DOMAIN memAccesses :
                        "W" \in memAccesses[j].type}}
      hits == {i \in DOMAIN memCBInfos :
                 \/ /\ "W" \in memCBInfos[i].type
                    /\ overlaps(writeRange, Range(memCBInfos[i].start,
                                                  memCBInfos[i].end))
                 \/ /\ memCBInfos[i].type = MEMORY_READ_WRITE
                    /\ overlaps(readRange, Range(memCBInfos[i].start,
                                                 memCBInfos[i].end))}
  IN GateLoop(memCBInfos, hits, 1, CONTINUE, <<>>)

(***************************************************************************)
(* Engine::run, one instruction at a time: the rules matching the          *)
(* instruction fire in registration order, PREINST before POSTINST.        *)
(***************************************************************************)
\* the invocation of the callback of one rule of VM v
FireRule(v, rule, inst) ==
  LET event(accs) ==
        LET result(g) ==
              [id |-> rule.id, pos |-> rule.pos, cbk |-> rule.cbk,
               ord |-> rule.ord, data |-> rule.data, ret |-> g.ret,
               calls |-> g.calls, accs |-> accs]
        IN The({result(g) :
                  g \in {IF rule.cbk = "memReadGate"
                           THEN memReadGate(vm[rule.data].memCBInfos, accs)
                         ELSE IF rule.cbk = "memWriteGate"
                           THEN memWriteGate(vm[rule.data].memCBInfos, accs)
                         ELSE [ret |-> CbkRet(rule.cbk), calls |-> <<>>]}})
  IN The({event(accs) : accs \in {getInstMemoryAccess(vm[v], inst)}})

Fire(v, inst, pos) ==
  LET sel == SelectSeq(vm[v].instrRules,
               LAMBDA r : r.pos = pos /\ r.cbk # "record" /\ Matches(r, inst))
  IN [i \in DOMAIN sel |-> FireRule(v, sel[i], inst)]

HasStop(events) == \E i \in DOMAIN events : events[i].ret = STOP

(***************************************************************************)
(* VM::run(start, stop)                                                    *)
(***************************************************************************)
NoLast == [op |-> "none", vm |-> 0, id |-> 0, ok |-> FALSE, bad |-> FALSE,
           prior |-> "none"]

MkLast(op, v, id, ok, bad, prior) ==
  [op |-> op, vm |-> v, id |-> id, ok |-> ok, bad |-> bad, prior |-> prior]

\* the part of run before engine->run
RunBegin(v, stop) ==
  /\ alive[v] /\ pc[v] = "host"
  /\ \E r \in {addCodeAddrCB(vm[v], stop, PREINST, "stopCallback")} :
       /\ r.s.instrRulesCounter <= MaxEngineId
       /\ vm' = [vm EXCEPT ![v] = r.s]
       /\ stopCB' = [stopCB EXCEPT ![v] = r.ret]
       /\ preRun' = [preRun EXCEPT ![v] = vm[v]]
  /\ pc' = [pc EXCEPT ![v] = "engine"]
  /\ last' = MkLast("runBegin", v, stop, TRUE, FALSE, "none")
  /\ UNCHANGED <<alive, fired, curInst, issued, bb, blk, call, pmaps>>

\* the engine executes one instruction
ExecInst(v, inst) ==
  /\ alive[v] /\ pc[v] = "engine"
  /\ \E pre \in {Fire(v, inst, PREINST)} :
       \E post \in {IF HasStop(pre) THEN <<>> ELSE Fire(v, inst, POSTINST)} :
         /\ fired' = [fired EXCEPT ![v] = pre \o post]
         /\ pc' = [pc EXCEPT ![v] =
                     IF HasStop(pre \o post) THEN "stopped" ELSE "engine"]
  /\ curInst' = [curInst EXCEPT ![v] = inst]
  /\ last' = MkLast("exec", v, 0, TRUE, FALSE, "none")
  /\ UNCHANGED <<vm, alive, stopCB, preRun, issued, bb, blk, call, pmaps>>

(***************************************************************************)
(* Range callbacks that call the VM they run in. "cbDelSelf" calls         *)
(* deleteInstrumentation with its own id, "cbAdd" calls addMemRangeCB;     *)
(* both return CONTINUE.                                                   *)
(***************************************************************************)
\* the state of VM v after the callback of entry e has run on state s
CbkEffect(s, v, e) ==
  CASE e.cbk = "cbDelSelf" ->
         deleteInstrumentation(s, e.id + EVENTID_VIRTCB_MASK).s
    [] e.cbk = "cbAdd" ->
         addMemRangeCB(s, v, 0, 1, MEMORY_READ, "cbContinue").s
    [] OTHER -> s

\* the indices of memCBInfos whose condition holds in the loop of gate
GateHits(gate, memCBInfos, memAccesses) ==
  LET g == IF gate = "memReadGate"
             THEN memReadGate(memCBInfos, memAccesses)
             ELSE memWriteGate(memCBInfos, memAccesses)
  IN {g.calls[k].idx : k \in DOMAIN g.calls}

\* the loop of the gates from index i on, on the registry of the state s
\* as the callbacks leave it: size() and entry i are read at each round
RECURSIVE GateLoopEff(_, _, _, _, _, _, _)
GateLoopEff(s, v, gate, memAccesses, i, action, calls) ==
  IF ~(i <= Len(s.memCBInfos))
    THEN [s |-> s, ret |-> action, calls |-> calls]
  ELSE IF i \in GateHits(gate, s.memCBInfos, memAccesses)
    THEN LET e == s.memCBInfos[i]
             ret == CbkRet(e.cbk)
         IN GateLoopEff(CbkEffect(s, v, e), v, gate, memAccesses, i + 1,
                        IF ret > action THEN ret ELSE action,
                        Append(calls, [idx |-> i, id |-> e.id,
                                       ord |-> e.ord, cbk |-> e.cbk,
                                       ret |-> ret]))
    ELSE GateLoopEff(s, v, gate, memAccesses, i + 1, action, calls)

\* the invocation of the callback of one rule of VM v in state s; the
\* event records the registry before and after it
FireRuleEff(s, v, rule, inst) ==
  LET result(g, accs) ==
        [s |-> g.s,
         event |-> [id |-> rule.id, pos |-> rule.pos, cbk |-> rule.cbk,
                    ord |-> rule.ord, data |-> rule.data, ret |-> g.ret,
                    calls |-> g.calls, accs |-> accs,
                    before |-> s.memCBInfos, after |-> g.s.memCBInfos]]
      run(accs) ==
        The({result(g, accs) :
               g \in {IF rule.cbk \in {"memReadGate", "memWriteGate"}
                        THEN GateLoopEff(s, v, rule.cbk, accs, 1, CONTINUE,
                                         <<>>)
                        ELSE [s |-> s, ret |-> CbkRet(rule.cbk),
                              calls |-> <<>>]}})
  IN The({run(accs) : accs \in {getInstMemoryAccess(s, inst)}})

\* the rules sel[k], sel[k + 1], ... fire one after the other
RECURSIVE FireEff(_, _, _, _, _, _)
FireEff(s, v, inst, sel, k, events) ==
  IF ~(k <= Len(sel)) THEN [s |-> s, events |-> events]
  ELSE LET next(r) ==
             FireEff(r.s, v, inst, sel, k + 1, Append(events, r.event))
       IN The({next(r) : r \in {FireRuleEff(s, v, sel[k], inst)}})

\* the rules of position pos that fire at inst
SelectRules(s, inst, pos) ==
  SelectSeq(s.instrRules,
            LAMBDA r : r.pos = pos /\ r.cbk # "record" /\ Matches(r, inst))

\* the engine executes one instruction whose callbacks call the VM
ExecInstEff(v, inst) ==
  /\ alive[v] /\ pc[v] = "engine"
  /\ \E pre \in {FireEff(vm[v], v, inst,
                          SelectRules(vm[v], inst, PREINST), 1, <<>>)} :
       \E post \in {IF HasStop(pre.events)
                      THEN [s |-> pre.s, events |-> <<>>]
                      ELSE FireEff(pre.s, v, inst,
                                   SelectRules(pre.s, inst, POSTINST), 1,
                                   <<>>)} :
         /\ Len(post.s.memCBInfos) <= MaxEntries + 1
         /\ vm' = [vm EXCEPT ![v] = post.s]
         /\ fired' = [fired EXCEPT ![v] = pre.events \o post.events]
         /\ pc' = [pc EXCEPT ![v] =
                     IF HasStop(pre.events \o post.events)
                       THEN "stopped" ELSE "engine"]
         /\ issued' = [issued EXCEPT ![v] =
              LET was == {vm[v].memCBInfos[i].id :
                            i \in DOMAIN vm[v].memCBInfos}
                  is == {post.s.memCBInfos[i].id :
                           i \in DOMAIN post.s.memCBInfos}
              IN [k \in DOMAIN @ |->
                    IF k - EVENTID_VIRTCB_MASK \in is \ was THEN "live"
                    ELSE IF k - EVENTID_VIRTCB_MASK \in was \ is THEN "dead"
                    ELSE @[k]]]
  /\ curInst' = [curInst EXCEPT ![v] = inst]
  /\ last' = MkLast("exec", v, 0, TRUE, FALSE, "none")
  /\ UNCHANGED <<alive, stopCB, preRun, bb, blk, call, pmaps>>

\* run leaving its stop rule in the engine
RunEnd_KeepStop(v, ret) ==
  /\ alive[v] /\ pc[v] \in {"engine", "stopped"}
  /\ pc' = [pc EXCEPT ![v] = "host"]
  /\ fired' = [fired EXCEPT ![v] = <<>>]
  /\ curInst' = [curInst EXCEPT ![v] = NoInst]
  /\ stopCB' = [stopCB EXCEPT ![v] = INVALID_EVENTID]
  /\ last' = MkLast("run", v, stopCB[v], ret, FALSE, "none")
  /\ UNCHANGED <<vm, alive, preRun, issued, bb, blk, call, pmaps>>

\* engine->run returns ret; the rest of run
RunEnd(v, ret) ==
  /\ alive[v] /\ pc[v] \in {"engine", "stopped"}
  /\ vm' = [vm EXCEPT ![v] = deleteInstrumentation(vm[v], stopCB[v]).s]
  /\ pc' = [pc EXCEPT ![v] = "host"]
  /\ fired' = [fired EXCEPT ![v] = <<>>]
  /\ curInst' = [curInst EXCEPT ![v] = NoInst]
  /\ stopCB' = [stopCB EXCEPT ![v] = INVALID_EVENTID]
  /\ last' = MkLast("run", v, stopCB[v], ret, FALSE, "none")
  /\ UNCHANGED <<alive, preRun, issued, bb, blk, call, pmaps>>

(***************************************************************************)
(* Calls of the public operations from the host.                           *)
(***************************************************************************)
\* a call whose result is r: the state r.s and the returned id r.ret;
\* cap bounds memCBID
Register(v, op, r, bad, cap) ==
  /\ alive[v] /\ pc[v] = "host"
  /\ r.s.instrRulesCounter <= MaxEngineId
  /\ Len(r.s.memCBInfos) <= MaxEntries
  /\ vm[v].memCBID < cap
  /\ vm' = [vm EXCEPT ![v] = r.s]
  /\ last' = MkLast(op, v, r.ret, r.ret # INVALID_EVENTID, bad, "none")
  /\ preRun' = [preRun EXCEPT ![v] = NewVM]
  /\ UNCHANGED <<alive, pc, stopCB, fired, curInst, bb, blk, call, pmaps>>

\* the history of the ids of range callbacks: an id is "live" once it was
\* returned, and "dead" once a deletion of it returned true
Issue(v, k) ==
  issued' = [issued EXCEPT ![v] =
               IF k >= EVENTID_VIRTCB_MASK /\ k # INVALID_EVENTID
                    /\ @[k] = "none"
                 THEN [@ EXCEPT ![k] = "live"] ELSE @]

AddMemRangeCB(v, start, end, type, cbk, cap) ==
  \E r \in {addMemRangeCB(vm[v], v, start, end, type, cbk)} :
    /\ Register(v, "addMemRangeCB", r,
                ~(start < end) \/ type = {} \/ cbk = nullptr, cap)
    /\ Issue(v, r.ret)

AddMemAddrCB(v, address, type, cbk, cap) ==
  \E r \in {addMemAddrCB(vm[v], v, address, type, cbk)} :
    /\ Register(v, "addMemAddrCB", r, type = {} \/ cbk = nullptr, cap)
    /\ Issue(v, r.ret)

DeleteInstrumentation(v, id) ==
  /\ alive[v] /\ pc[v] = "host"
  /\ \E r \in {deleteInstrumentation(vm[v], id)} :
       /\ vm' = [vm EXCEPT ![v] = r.s]
       /\ last' = MkLast("deleteInstrumentation", v, id, r.ret, FALSE,
                         issued[v][id])
       /\ issued' = [issued EXCEPT ![v] =
                       IF r.ret /\ @[id] = "live"
                         THEN [@ EXCEPT ![id] = "dead"] ELSE @]
  /\ preRun' = [preRun EXCEPT ![v] = NewVM]
  /\ UNCHANGED <<alive, pc, stopCB, fired, curInst, bb, blk, call, pmaps>>

DeleteAllInstrumentations(v) ==
  /\ alive[v] /\ pc[v] = "host"
  /\ vm' = [vm EXCEPT ![v] = deleteAllInstrumentations(vm[v])]
  /\ last' = MkLast("deleteAllInstrumentations", v, 0, TRUE, FALSE, "none")
  /\ preRun' = [preRun EXCEPT ![v] = NewVM]
  /\ UNCHANGED <<alive, pc, stopCB, fired, curInst, issued, bb, blk, call, pmaps>>

(***************************************************************************)
(* The other registration operations; max bounds the number of callbacks   *)
(* registered.                                                             *)
(***************************************************************************)
CallbackCount(s) ==
  Cardinality({i \in DOMAIN s.instrRules :
                 s.instrRules[i].cbk \notin
                   {"record", "memReadGate", "memWriteGate"}})
  + Len(s.vmCallbacks) + Len(s.memCBInfos)

RegisterRule(v, op, ret, bad, max) ==
  /\ CallbackCount(vm[v]) < max
  /\ \E r \in {ret} : Register(v, op, r, bad, IdMod)
  /\ UNCHANGED issued

AddMnemonicCB(v, mnemonic, pos, cbk, max) ==
  RegisterRule(v, "addMnemonicCB", addMnemonicCB(vm[v], mnemonic, pos, cbk),
               cbk = nullptr, max)

AddCodeCB(v, pos, cbk, max) ==
  RegisterRule(v, "addCodeCB", addCodeCB(vm[v], pos, cbk), cbk = nullptr,
               max)

AddCodeAddrCB(v, address, pos, cbk, max) ==
  RegisterRule(v, "addCodeAddrCB", addCodeAddrCB(vm[v], address, pos, cbk),
               cbk = nullptr, max)

AddCodeRangeCB(v, start, end, pos, cbk, max) ==
  RegisterRule(v, "addCodeRangeCB",
               addCodeRangeCB(vm[v], start, end, pos, cbk),
               ~(start < end) \/ cbk = nullptr, max)

\* the type passed is kept with the record of the call
AddMemAccessCB(v, type, cbk, max) ==
  /\ CallbackCount(vm[v]) < max
  /\ alive[v] /\ pc[v] = "host"
  /\ \E r \in {addMemAccessCB(vm[v], type, cbk, 0)} :
       /\ r.s.instrRulesCounter <= MaxEngineId
       /\ vm' = [vm EXCEPT ![v] = r.s]
       /\ last' = [op |-> "addMemAccessCB", vm |-> v, id |-> r.ret,
                   ok |-> r.ret # INVALID_EVENTID, bad |-> cbk = nullptr,
                   prior |-> "none", type |-> type]
  /\ preRun' = [preRun EXCEPT ![v] = NewVM]
  /\ UNCHANGED <<alive, pc, stopCB, fired, curInst, issued, bb, blk, call, pmaps>>

AddVMEventCB(v, mask, cbk, max) ==
  RegisterRule(v, "addVMEventCB", addVMEventCB(vm[v], mask, cbk),
               mask = 0 \/ cbk = nullptr, max)

AddInstrRule(v, cbk, max) ==
  RegisterRule(v, "addInstrRule", addInstrRule(vm[v], cbk), cbk = nullptr,
               max)

AddInstrRuleC(v, cbk, max) ==
  RegisterRule(v, "addInstrRule", addInstrRuleC(vm[v], cbk), cbk = nullptr,
               max)

AddInstrRuleRange(v, start, end, cbk, max) ==
  RegisterRule(v, "addInstrRuleRange",
               addInstrRuleRange(vm[v], start, end, cbk),
               ~(start < end) \/ cbk = nullptr, max)

AddInstrRuleRangeC(v, start, end, cbk, max) ==
  RegisterRule(v, "addInstrRuleRange",
               addInstrRuleRangeC(vm[v], start, end, cbk),
               ~(start < end) \/ cbk = nullptr, max)

(***************************************************************************)
(* recordMemoryAccess called by the host.                                  *)
(***************************************************************************)
RecordMemoryAccess(v, type) ==
  /\ alive[v] /\ pc[v] = "host"
  /\ \E r \in {recordMemoryAccess(vm[v], type)} :
       /\ r.s.instrRulesCounter <= MaxEngineId
       /\ vm' = [vm EXCEPT ![v] = r.s]
       /\ last' = MkLast("recordMemoryAccess", v, 0, r.ret, FALSE, "none")
  /\ preRun' = [preRun EXCEPT ![v] = NewVM]
  /\ UNCHANGED <<alive, pc, stopCB, fired, curInst, issued, bb, blk, call, pmaps>>

(***************************************************************************)
(* VM::getBBMemoryAccess, one iteration of its loop at a time.  The current *)
(* ExecBlock gives getCurrentInstID, and getSeqStart and getSeqEnd of the   *)
(* current sequence; the engine gives isPreInst.                           *)
(***************************************************************************)
InstIds == 0 .. InstIdMod - 1

NoBB == [pc |-> "idle", block |-> FALSE, start |-> 0, end |-> 0,
         instID |-> 0, preInst |-> FALSE, itInstID |-> 0, memAccess |-> <<>>]

Min(a, b) == IF a < b THEN a ELSE b

\* the call, up to the initialisation of the loop; block is
\* curExecBlock != nullptr
BBBegin(block, start, end, instID, preInst) ==
  /\ bb.pc = "idle"
  /\ bb' = IF ~block
             THEN [NoBB EXCEPT !.pc = "done"]
             ELSE [pc |-> "loop", block |-> TRUE, start |-> start,
                   end |-> end, instID |-> instID, preInst |-> preInst,
                   itInstID |-> start, memAccess |-> <<>>]
  /\ UNCHANGED <<vm, alive, pc, stopCB, preRun, fired, curInst, issued, last, blk, call,
                 pmaps>>

\* the test of the loop, and its body and increment when the test holds;
\* analyseMemoryAccess(block, id, afterInst, dest) is recorded as the pair
\* of its arguments id and afterInst
BBStep ==
  /\ bb.pc = "loop"
  /\ Len(bb.memAccess) <= InstIdMod
  /\ bb' = IF bb.itInstID <= Min(bb.end, bb.instID)
             THEN [bb EXCEPT
                     !.memAccess =
                       Append(@, [id |-> bb.itInstID,
                                  after |-> bb.itInstID # bb.instID
                                            \/ ~bb.preInst]),
                     !.itInstID = (@ + 1) % InstIdMod]
             ELSE [bb EXCEPT !.pc = "done"]
  /\ UNCHANGED <<vm, alive, pc, stopCB, preRun, fired, curInst, issued, last, blk, call,
                 pmaps>>

\* return memAccess
BBReturn ==
  /\ bb.pc = "done"
  /\ bb' = NoBB
  /\ UNCHANGED <<vm, alive, pc, stopCB, preRun, fired, curInst, issued, last, blk, call,
                 pmaps>>

(***************************************************************************)
(* Copies: VM dst is constructed from, or assigned, VM src.                *)
(***************************************************************************)
CopyConstruct(src, dst) ==
  /\ alive[src] /\ pc[src] = "host" /\ ~alive[dst]
  /\ \E s \in {CopyVM(vm[src])} :
       /\ s.instrRulesCounter <= MaxEngineId
       /\ vm' = [vm EXCEPT ![dst] = s]
  /\ alive' = [alive EXCEPT ![dst] = TRUE]
  /\ issued' = [issued EXCEPT ![dst] = issued[src]]
  /\ last' = MkLast("copy", dst, 0, TRUE, FALSE, "none")
  /\ UNCHANGED <<pc, stopCB, preRun, fired, curInst, bb, blk, call, pmaps>>

CopyAssign(src, dst) ==
  /\ src # dst
  /\ alive[src] /\ pc[src] = "host" /\ alive[dst] /\ pc[dst] = "host"
  /\ \E s \in {AssignVM(vm[dst], vm[src])} :
       /\ s.instrRulesCounter <= MaxEngineId
       /\ vm' = [vm EXCEPT ![dst] = s]
  /\ issued' = [issued EXCEPT ![dst] = issued[src]]
  /\ last' = MkLast("assign", dst, 0, TRUE, FALSE, "none")
  /\ UNCHANGED <<alive, pc, stopCB, preRun, fired, curInst, bb, blk, call, pmaps>>

(***************************************************************************)
(* Initial state: VM 1 has just been constructed, VM 2 not yet.            *)
(***************************************************************************)
(***************************************************************************)
(* getBreakToHost (InstrRules_X86_64.cpp) and the execution of the         *)
(* sequence it returns at a host address of an ExecBlock.                  *)
(***************************************************************************)
Regs == 0 .. MaxReg
HostAddrs == 0 .. MaxHostPC

\* getBreakToHost with the offsets of the two architectures exchanged
getBreakToHost_OtherArch(temp, is_x86) ==
  << IF is_x86
       THEN [kind |-> "HostPCRel", inst |-> "mov32ri", reg |-> temp,
             imm |-> 0, opn |-> 1, offset |-> 29]
       ELSE [kind |-> "HostPCRel", inst |-> "mov64ri", reg |-> temp,
             imm |-> 0, opn |-> 1, offset |-> 22],
     [kind |-> "SaveReg", reg |-> temp, offset |-> "hostState.selector"],
     [kind |-> "LoadReg", reg |-> temp, offset |-> temp],
     [kind |-> "JmpEpilogue"] >>

\* getBreakToHost(Reg temp); is_x86 is the build's constant
getBreakToHost(temp, is_x86) ==
  << IF is_x86
       THEN [kind |-> "HostPCRel", inst |-> "mov32ri", reg |-> temp,
             imm |-> 0, opn |-> 1, offset |-> 22]
       ELSE [kind |-> "HostPCRel", inst |-> "mov64ri", reg |-> temp,
             imm |-> 0, opn |-> 1, offset |-> 29],
     [kind |-> "SaveReg", reg |-> temp, offset |-> "hostState.selector"],
     [kind |-> "LoadReg", reg |-> temp, offset |-> temp],
     [kind |-> "JmpEpilogue"] >>

\* size in bytes of the encoding of one instruction of the sequence:
\* mov r, imm; mov [Context + offset], r; mov r, [Context + offset];
\* jmp rel32
EncodedSize(ri, is_x86) ==
  CASE ri.kind = "HostPCRel" -> IF is_x86 THEN 5 ELSE 10
    [] ri.kind = "SaveReg" -> IF is_x86 THEN 6 ELSE 7
    [] ri.kind = "LoadReg" -> IF is_x86 THEN 6 ELSE 7
    [] ri.kind = "JmpEpilogue" -> 5

NoBlk ==
  [pc |-> "idle", is_x86 |-> FALSE, temp |-> 0, insts |-> <<>>, i |-> 0,
   base |-> 0, hostPC |-> 0, reg |-> 0, slot |-> 0, selector |-> 0]

\* the sequence is written at address base of the code of an ExecBlock
\* and entered with value reg in temp; the value of temp that was saved
\* in its slot of the Context is slot
BlkBegin(is_x86, temp, base, reg, slot) ==
  /\ blk.pc = "idle"
  /\ blk' = [pc |-> "code", is_x86 |-> is_x86, temp |-> temp,
             insts |-> getBreakToHost(temp, is_x86), i |-> 1,
             base |-> base, hostPC |-> base, reg |-> reg, slot |-> slot,
             selector |-> 0]
  /\ UNCHANGED <<vm, alive, pc, stopCB, preRun, fired, curInst, issued,
                 last, bb, call, pmaps>>

\* the processor executes the instruction at hostPC
BlkStep ==
  /\ blk.pc = "code" /\ blk.i <= Len(blk.insts)
  /\ LET ri == blk.insts[blk.i]
         next == blk.hostPC + EncodedSize(ri, blk.is_x86)
     IN blk' =
          CASE ri.kind = "HostPCRel" ->
                 [blk EXCEPT !.reg = blk.hostPC + ri.offset,
                             !.hostPC = next, !.i = @ + 1]
            [] ri.kind = "SaveReg" ->
                 [blk EXCEPT !.selector = blk.reg,
                             !.hostPC = next, !.i = @ + 1]
            [] ri.kind = "LoadReg" ->
                 [blk EXCEPT !.reg = blk.slot,
                             !.hostPC = next, !.i = @ + 1]
            [] ri.kind = "JmpEpilogue" ->
                 [blk EXCEPT !.pc = "epilogue", !.hostPC = next]
  /\ UNCHANGED <<vm, alive, pc, stopCB, preRun, fired, curInst, issued,
                 last, bb, call, pmaps>>

\* the epilogue returns to the host
BlkEnd ==
  /\ blk.pc = "epilogue"
  /\ blk' = NoBlk
  /\ UNCHANGED <<vm, alive, pc, stopCB, preRun, fired, curInst, issued,
                 last, bb, call, pmaps>>

(***************************************************************************)
(* VM::callA, and VM::call and VM::callV which forward to it, on VM 1.     *)
(***************************************************************************)
FAKE_RET_ADDR == 42

\* the GPR state: the stack pointer, the return register, and the words
\* pushed on the stack, the last one first
GPRState(sp) == [sp |-> sp, ret |-> 0, stack |-> <<>>]

NoCall ==
  [pc |-> "idle", op |-> "none", state |-> GPRState(0),
   retval |-> nullptr, mem |-> "unset", function |-> 0, args |-> <<>>,
   start |-> 0, res |-> FALSE, entry |-> GPRState(0)]

\* simulateCallA(state, returnAddress, argNum, args): the arguments and
\* the return address are pushed on the stack of state
simulateCallA(state, returnAddress, args) ==
  [state EXCEPT !.stack = <<returnAddress>> \o args \o @]

\* VM::setGPRState
SetGPRState(sp) ==
  /\ alive[1] /\ pc[1] = "host" /\ call.pc = "idle"
  /\ call' = [call EXCEPT !.state = GPRState(sp)]
  /\ last' = MkLast("setGPRState", 1, sp, TRUE, FALSE, "none")
  /\ UNCHANGED <<vm, alive, pc, stopCB, preRun, fired, curInst, issued, bb,
                 blk, pmaps>>

\* callA without the test of the stack pointer
CallA_AnySP(op, retval, function, args) ==
  /\ alive[1] /\ pc[1] = "host" /\ call.pc = "idle"
  /\ \E r \in {addCodeAddrCB(vm[1], FAKE_RET_ADDR, PREINST,
                              "stopCallback")} :
       /\ r.s.instrRulesCounter <= MaxEngineId
       /\ vm' = [vm EXCEPT ![1] = r.s]
       /\ stopCB' = [stopCB EXCEPT ![1] = r.ret]
       /\ preRun' = [preRun EXCEPT ![1] = vm[1]]
  /\ pc' = [pc EXCEPT ![1] = "engine"]
  /\ call' = [call EXCEPT
               !.pc = "run", !.op = op, !.retval = retval,
               !.function = function, !.args = args, !.start = function,
               !.entry = call.state, !.mem = "unset",
               !.state = simulateCallA(call.state, FAKE_RET_ADDR, args)]
  /\ last' = MkLast(op, 1, function, TRUE, FALSE, "none")
  /\ UNCHANGED <<alive, fired, curInst, issued, bb, blk, pmaps>>

\* callA(retval, function, argNum, args) up to engine->run; op names the
\* operation called: call and callV pass their arguments on to callA
CallA(op, retval, function, args) ==
  /\ alive[1] /\ pc[1] = "host" /\ call.pc = "idle"
  /\ IF call.state.sp = 0
       THEN /\ call' = [call EXCEPT
                          !.pc = "done", !.op = op, !.retval = retval,
                          !.function = function, !.args = args,
                          !.entry = call.state, !.mem = "unset",
                          !.res = FALSE]
            /\ last' = MkLast(op, 1, function, FALSE, FALSE, "none")
            /\ UNCHANGED <<vm, alive, pc, stopCB, preRun, fired, curInst,
                           issued, bb, blk, pmaps>>
       ELSE /\ \E r \in {addCodeAddrCB(vm[1], FAKE_RET_ADDR, PREINST,
                                        "stopCallback")} :
                 /\ r.s.instrRulesCounter <= MaxEngineId
                 /\ vm' = [vm EXCEPT ![1] = r.s]
                 /\ stopCB' = [stopCB EXCEPT ![1] = r.ret]
                 /\ preRun' = [preRun EXCEPT ![1] = vm[1]]
            /\ pc' = [pc EXCEPT ![1] = "engine"]
            /\ call' = [call EXCEPT
                          !.pc = "run", !.op = op, !.retval = retval,
                          !.function = function, !.args = args,
                          !.start = function, !.entry = call.state,
                          !.mem = "unset",
                          !.state = simulateCallA(call.state, FAKE_RET_ADDR,
                                                  args)]
            /\ last' = MkLast(op, 1, function, TRUE, FALSE, "none")
            /\ UNCHANGED <<alive, fired, curInst, issued, bb, blk, pmaps>>

\* engine->run returns ret, the guest having left rv in the return
\* register; the rest of run and of callA
CallReturn(ret, rv) ==
  /\ alive[1] /\ pc[1] \in {"engine", "stopped"} /\ call.pc = "run"
  /\ vm' = [vm EXCEPT ![1] = deleteInstrumentation(vm[1], stopCB[1]).s]
  /\ pc' = [pc EXCEPT ![1] = "host"]
  /\ fired' = [fired EXCEPT ![1] = <<>>]
  /\ curInst' = [curInst EXCEPT ![1] = NoInst]
  /\ stopCB' = [stopCB EXCEPT ![1] = INVALID_EVENTID]
  /\ call' = [call EXCEPT
               !.pc = "done", !.res = ret, !.state.ret = rv,
               !.mem = IF call.retval # nullptr THEN rv ELSE @]
  /\ last' = MkLast("run", 1, stopCB[1], ret, FALSE, "none")
  /\ UNCHANGED <<alive, preRun, issued, bb, blk, pmaps>>

\* the caller has the result
CallDone ==
  /\ call.pc = "done"
  /\ call' = [call EXCEPT !.pc = "idle"]
  /\ UNCHANGED <<vm, alive, pc, stopCB, preRun, fired, curInst, issued,
                 last, bb, blk, pmaps>>

(***************************************************************************)
(* getRemoteProcessMaps (Memory_linux.cpp). A character is a string of     *)
(* length one, "LF" is the newline and NUL the terminator; the buffer line *)
(* is a function on 0 .. BUFFER_SIZE - 1.                                  *)
(***************************************************************************)
NUL == "NUL"
\* unsigned long, scaled
ULongMod == 2 ^ 16

\* "/proc/1/maps", what snprintf writes into line
ProcPath == <<"/", "p", "r", "o", "c", "/", "1", "/", "m", "a", "p", "s">>

\* char line[BUFFER_SIZE] = {0} after snprintf
InitLine ==
  [i \in 0 .. BUFFER_SIZE - 1 |->
     IF i < Len(ProcPath) THEN ProcPath[i + 1] ELSE NUL]

\* *ptr; a read outside of line gives "OOB"
At(line, p) == IF p \in DOMAIN line THEN line[p] ELSE "OOB"

isspace(c) == c \in {" ", "LF"}

\* value of a digit; 16 for the other characters
DigitVal(c) ==
  CASE c = "1" -> 1 [] c = "2" -> 2 [] c = "a" -> 10 [] c = "c" -> 12
    [] OTHER -> 16

\* while (isspace(*ptr)) ptr++
RECURSIVE SkipSpaces(_, _)
SkipSpaces(line, p) ==
  IF isspace(At(line, p)) THEN SkipSpaces(line, p + 1) ELSE p

\* the digits of strtoul from p on; the value saturates
RECURSIVE ScanDigits(_, _, _, _)
ScanDigits(line, p, base, acc) ==
  IF DigitVal(At(line, p)) < base
    THEN ScanDigits(line, p + 1, base,
                    IF acc * base + DigitVal(At(line, p)) >= ULongMod
                      THEN ULongMod - 1
                      ELSE acc * base + DigitVal(At(line, p)))
    ELSE [val |-> acc, p |-> p]

\* strtoul(ptr, &ptr, base): leading spaces, a sign, digits; without a
\* digit the pointer is left where it was. hi is the last index read
strtoul(line, p, base) ==
  LET q == SkipSpaces(line, p)
      s == IF At(line, q) \in {"+", "-"} THEN q + 1 ELSE q
      d == ScanDigits(line, s, base, 0)
  IN IF d.p = s
       THEN [val |-> 0, p |-> p, hi |-> s]
       ELSE [val |-> IF At(line, q) = "-" /\ d.val < ULongMod - 1
                       THEN (ULongMod - d.val) % ULongMod ELSE d.val,
             p |-> d.p, hi |-> d.p]

\* the C string at p
RECURSIVE CString(_, _)
CString(line, p) ==
  IF At(line, p) \in {NUL, "OOB"} THEN <<>>
  ELSE <<At(line, p)>> \o CString(line, p + 1)

\* ptr = strrchr(ptr, '/'); ptr + 1, or the empty string without a '/'
AfterLastSlash(str) ==
  LET sl == {i \in DOMAIN str : str[i] = "/"}
  IN IF sl = {} THEN <<>>
     ELSE SubSeq(str, (CHOOSE i \in sl : \A j \in sl : j <= i) + 1,
                 Len(str))

\* fgets(line, BUFFER_SIZE, mapfile) on the rest of the file: at most
\* BUFFER_SIZE - 1 characters, up to and with the first newline
fgets(line, file) ==
  LET nl == {i \in DOMAIN file : file[i] = "LF"}
      k == IF nl = {} THEN Len(file)
           ELSE CHOOSE i \in nl : \A j \in nl : i <= j
      n == IF k < BUFFER_SIZE - 1 THEN k ELSE BUFFER_SIZE - 1
  IN [line |-> [i \in DOMAIN line |->
                  IF i < n THEN file[i + 1]
                  ELSE IF i = n THEN NUL ELSE line[i]],
      file |-> SubSeq(file, n + 1, Len(file))]

\* if ((ptr = strchr(line, '\n')) != nullptr) *ptr = '\0'
RemoveNewline(line) ==
  LET s == CString(line, 0)
      nl == {i \in DOMAIN s : s[i] = "LF"}
  IN IF nl = {} THEN line
     ELSE [line EXCEPT ![(CHOOSE i \in nl : \A j \in nl : i <= j) - 1]
                         = NUL]

\* the body of the loop after the newline is removed: the MemoryMap m, and
\* oob, whether a character outside of line was read
ParseLine(line, full_path) ==
  LET r1 == strtoul(line, 0, 16)
      r2 == strtoul(line, r1.p + 1, 16)
      p2 == SkipSpaces(line, r2.p)
      p3 == SkipSpaces(line, p2 + 4)
      r4 == strtoul(line, p3, 16)
      p4 == SkipSpaces(line, r4.p)
      r5 == strtoul(line, p4, 16)
      r6 == strtoul(line, r5.p + 1, 16)
      p6 == SkipSpaces(line, r6.p)
      r7 == strtoul(line, p6, 10)
      p7 == SkipSpaces(line, r7.p)
      name == CString(line, p7)
  IN [m |-> [start |-> r1.val, end |-> r2.val,
             permission |->
               (IF At(line, p2) = "r" THEN {"PF_READ"} ELSE {})
                 \cup (IF At(line, p2 + 1) = "w" THEN {"PF_WRITE"} ELSE {})
                 \cup (IF At(line, p2 + 2) = "x" THEN {"PF_EXEC"} ELSE {}),
             name |-> IF full_path THEN name ELSE AfterLastSlash(name)],
      oob |-> \/ \E h \in {r1.hi, r2.hi, r4.hi, r5.hi, r6.hi, r7.hi, p7} :
                   h >= BUFFER_SIZE
              \/ ~\E i \in DOMAIN line : i >= p7 /\ line[i] = NUL]

\* the mappings of a process: the numbers with their hexadecimal digits,
\* the four permission characters and the path; the last one has a path
\* that makes its line longer than the buffer
MapRecs ==
  {[start |-> 1, startHex |-> <<"1">>, end |-> 2, endHex |-> <<"2">>,
    perms |-> <<"r", "-", "x", "p">>, name |-> <<"/", "n">>],
   [start |-> 2, startHex |-> <<"2">>, end |-> 26, endHex |-> <<"1", "a">>,
    perms |-> <<"r", "w", "-", "p">>, name |-> <<>>],
   [start |-> 10, startHex |-> <<"a">>, end |-> 33,
    endHex |-> <<"2", "1">>, perms |-> <<"-", "-", "-", "p">>,
    name |-> <<"/", "a", "/", "n">>],
   [start |-> 1, startHex |-> <<"1">>, end |-> 17, endHex |-> <<"1", "1">>,
    perms |-> <<"r", "w", "x", "p">>,
    name |-> <<"/", "n", "/", "a", "a", "a", "a", "a", "a", "/", "n">>]}

\* the line of /proc/<pid>/maps of a mapping
LineOf(rec) ==
  rec.startHex \o <<"-">> \o rec.endHex \o <<" ">> \o rec.perms
    \o <<" ", "1", " ", "1", ":", "1", " ", "1", " ">> \o rec.name
    \o <<"LF">>

RECURSIVE FileOf(_)
FileOf(recs) ==
  IF recs = <<>> THEN <<>> ELSE LineOf(Head(recs)) \o FileOf(Tail(recs))

RECURSIVE SeqsUpTo(_, _)
SeqsUpTo(S, n) ==
  IF n = 0 THEN {<<>>}
  ELSE SeqsUpTo(S, n - 1)
         \cup {Append(s, x) : s \in SeqsUpTo(S, n - 1), x \in S}

NoMaps ==
  [pc |-> "idle", full_path |-> FALSE, opened |-> FALSE, recs |-> <<>>,
   file |-> <<>>, line |-> InitLine, maps |-> <<>>]

\* getRemoteProcessMaps(pid, full_path) up to the loop; recs are the
\* mappings of the process, opened is whether fopen succeeds
MapsOpen(recs, full_path, opened) ==
  /\ pmaps.pc = "idle"
  /\ pmaps' = [pc |-> IF opened THEN "loop" ELSE "done",
               full_path |-> full_path, opened |-> opened, recs |-> recs,
               file |-> IF opened THEN FileOf(recs) ELSE <<>>,
               line |-> InitLine, maps |-> <<>>]
  /\ UNCHANGED <<vm, alive, pc, stopCB, preRun, fired, curInst, issued,
                 last, bb, blk, call>>

\* one round of the loop: fgets returns line
MapsLine ==
  /\ pmaps.pc = "loop" /\ pmaps.file # <<>>
  /\ \E g \in {fgets(pmaps.line, pmaps.file)} :
       \E line \in {RemoveNewline(g.line)} :
         \E r \in {ParseLine(line, pmaps.full_path)} :
           \E m \in IF r.oob
                      THEN {r.m, [start |-> 0, end |-> 0,
                                  permission |-> {}, name |-> <<>>]}
                      ELSE {r.m} :
             pmaps' = [pmaps EXCEPT !.line = line, !.file = g.file,
                                    !.maps = Append(@, m)]
  /\ UNCHANGED <<vm, alive, pc, stopCB, preRun, fired, curInst, issued,
                 last, bb, blk, call>>

\* fgets returns nullptr at the end of the file
MapsReturn ==
  /\ pmaps.pc = "loop" /\ pmaps.file = <<>>
  /\ pmaps' = [pmaps EXCEPT !.pc = "done"]
  /\ UNCHANGED <<vm, alive, pc, stopCB, preRun, fired, curInst, issued,
                 last, bb, blk, call>>

\* the caller has the vector
MapsDone ==
  /\ pmaps.pc = "done"
  /\ pmaps' = NoMaps
  /\ UNCHANGED <<vm, alive, pc, stopCB, preRun, fired, curInst, issued,
                 last, bb, blk, call>>

Init ==
  /\ vm = [v \in VMIds |-> NewVM]
  /\ alive = [v \in VMIds |-> v = 1]
  /\ pc = [v \in VMIds |-> "host"]
  /\ stopCB = [v \in VMIds |-> INVALID_EVENTID]
  /\ preRun = [v \in VMIds |-> NewVM]
  /\ fired = [v \in VMIds |-> <<>>]
  /\ curInst = [v \in VMIds |-> NoInst]
  /\ issued = [v \in VMIds |-> [k \in 0 .. IdMod - 1 |-> "none"]]
  /\ last = NoLast
  /\ bb = NoBB
  /\ blk = NoBlk
  /\ call = NoCall
  /\ pmaps = NoMaps

EventIds == 0 .. IdMod - 1
\* the ids whose most significant bit is set
VirtIds == EVENTID_VIRTCB_MASK .. IdMod - 1
\* the ids below the ones addMemRangeCB returns, and those
RouteIds == 0 .. EVENTID_VIRTCB_MASK + MaxEntries - 1
\* ranges [start, end) that meet, contain or miss each other
FilterRanges == {<<0, 1>>, <<0, 2>>, <<1, 2>>}
\* the ids addMemRangeCB returns while memCBID is below MaxMemCBID
IssuedIds == EVENTID_VIRTCB_MASK .. EVENTID_VIRTCB_MASK + MaxMemCBID - 1
\* a valid, an empty and an inverted range
SomeRanges == {<<0, 1>>, <<1, 1>>, <<1, 0>>}
ValidTypes == {MEMORY_READ, MEMORY_WRITE, MEMORY_READ_WRITE}
\* the instructions executed in the specifications below
SomeInsts ==
  {i \in Instructions(1) :
     /\ i.address \in {0, MaxCodeAddr}
     /\ \A j \in DOMAIN i.accs :
          /\ i.accs[j].accessAddress = 0 /\ i.accs[j].size = 1
          /\ i.accs[j].type = MEMORY_READ}
FilterInsts == {i \in Instructions(MaxAccs) : i.address = 0}
AggrInsts == {i \in Instructions(1) : i.address = 0}

(***************************************************************************)
(* Spec: one VM, range callbacks and code callbacks, deletions, and run.   *)
(***************************************************************************)
Next ==
  \/ \E type \in {MEMORY_READ, MEMORY_READ_WRITE} :
       /\ CallbackCount(vm[1]) < MaxCallbacks - 1
       /\ AddMemRangeCB(1, 0, 1, type, "cbContinue", MaxMemCBID)
  \/ AddCodeCB(1, POSTINST, "cbBreak", MaxCallbacks - 1)
  \/ \E id \in IssuedIds : DeleteInstrumentation(1, id)
  \/ RunBegin(1, MaxCodeAddr)
  \/ \E inst \in SomeInsts : ExecInst(1, inst)
  \/ RunEnd(1, curInst[1] # NoInst)

Spec == Init /\ [][Next]_vars

(***************************************************************************)
(* SpecReg: the registry operations with valid and invalid arguments.      *)
(***************************************************************************)
NextReg ==
  \/ \E a \in SomeRanges, type \in MemoryAccessType,
        cbk \in {"cbStop", nullptr} :
       AddMemRangeCB(1, a[1], a[2], type, cbk, MaxMemCBID)
  \/ \E address \in {0, MaxAddr}, type \in MemoryAccessType,
        cbk \in {"cbStop", nullptr} :
       AddMemAddrCB(1, address, type, cbk, MaxMemCBID)
  \/ \E id \in VirtIds : DeleteInstrumentation(1, id)
  \/ DeleteAllInstrumentations(1)

SpecReg == Init /\ [][NextReg]_vars

(***************************************************************************)
(* SpecIds: registrations and deletions until memCBID wraps around.        *)
(***************************************************************************)
NextIds ==
  \/ AddMemRangeCB(1, 0, 1, MEMORY_READ, "cbStop", IdMod)
  \/ AddMemAddrCB(1, 0, MEMORY_READ, "cbStop", IdMod)
  \/ \E id \in VirtIds : DeleteInstrumentation(1, id)

SpecIds == Init /\ [][NextIds]_vars

(***************************************************************************)
(* SpecFilter: range callbacks of every type, and the accesses of the      *)
(* first instruction of a run.                                             *)
(***************************************************************************)
NextFilter ==
  \/ \E a \in FilterRanges, type \in ValidTypes :
       AddMemRangeCB(1, a[1], a[2], type, "cbContinue", MaxMemCBID)
  \/ RunBegin(1, MaxCodeAddr)
  \/ \E inst \in FilterInsts : curInst[1] = NoInst /\ ExecInst(1, inst)

SpecFilter == Init /\ [][NextFilter]_vars

(***************************************************************************)
(* SpecAggr: range callbacks returning every VMAction, and the first       *)
(* instruction of a run.                                                   *)
(***************************************************************************)
NextAggr ==
  \/ \E a \in {<<0, 1>>, <<1, 2>>}, type \in {MEMORY_READ, MEMORY_WRITE},
        cbk \in UserCbks :
       AddMemRangeCB(1, a[1], a[2], type, cbk, MaxMemCBID)
  \/ RunBegin(1, MaxCodeAddr)
  \/ \E inst \in AggrInsts : curInst[1] = NoInst /\ ExecInst(1, inst)

SpecAggr == Init /\ [][NextAggr]_vars

(***************************************************************************)
(* SpecArgs: every registration operation, called with valid and with      *)
(* invalid arguments.                                                      *)
(***************************************************************************)
\* the callbacks, ranges and event masks passed
ArgCbks == {nullptr, "cbContinue"}
EventMasks == {0, 1}

NextArgs ==
  \/ \E cbk \in ArgCbks :
       AddMnemonicCB(1, "MOV", PREINST, cbk, MaxCallbacks - 1)
  \/ \E cbk \in ArgCbks : AddCodeCB(1, PREINST, cbk, MaxCallbacks - 1)
  \/ \E cbk \in ArgCbks :
       AddCodeAddrCB(1, 0, PREINST, cbk, MaxCallbacks - 1)
  \/ \E a \in SomeRanges, cbk \in ArgCbks :
       AddCodeRangeCB(1, a[1], a[2], POSTINST, cbk, MaxCallbacks - 1)
  \/ \E cbk \in ArgCbks :
       AddMemAccessCB(1, MEMORY_READ, cbk, MaxCallbacks - 1)
  \/ \E cbk \in ArgCbks :
       /\ CallbackCount(vm[1]) < MaxCallbacks - 1
       /\ AddMemAddrCB(1, 0, MEMORY_WRITE, cbk, MaxMemCBID)
  \/ \E a \in SomeRanges, cbk \in ArgCbks :
       /\ CallbackCount(vm[1]) < MaxCallbacks - 1
       /\ AddMemRangeCB(1, a[1], a[2], MEMORY_READ, cbk, MaxMemCBID)
  \/ \E mask \in EventMasks, cbk \in ArgCbks :
       AddVMEventCB(1, mask, cbk, MaxCallbacks - 1)
  \/ \E cbk \in ArgCbks : AddInstrRule(1, cbk, MaxCallbacks - 1)
  \/ \E cbk \in ArgCbks : AddInstrRuleC(1, cbk, MaxCallbacks - 1)
  \/ \E a \in SomeRanges, cbk \in ArgCbks :
       AddInstrRuleRange(1, a[1], a[2], cbk, MaxCallbacks - 1)
  \/ \E a \in SomeRanges, cbk \in ArgCbks :
       AddInstrRuleRangeC(1, a[1], a[2], cbk, MaxCallbacks - 1)

SpecArgs == Init /\ [][NextArgs]_vars

(***************************************************************************)
(* SpecOrder: callbacks of every kind registered in every order, and the   *)
(* first instruction of a run, which all of them match.                    *)
(***************************************************************************)
\* the instruction at address 0 reading and writing address 0
OrderInsts ==
  {i \in Instructions(MaxAccs) :
     /\ i.address = 0 /\ Len(i.accs) = 2
     /\ \A j \in DOMAIN i.accs :
          i.accs[j].accessAddress = 0 /\ i.accs[j].size = 1}

NextOrder ==
  \/ \E pos \in InstPosition : AddCodeCB(1, pos, "cbContinue", MaxCallbacks)
  \/ AddCodeAddrCB(1, 0, PREINST, "cbContinue", MaxCallbacks)
  \/ AddCodeRangeCB(1, 0, 1, PREINST, "cbContinue", MaxCallbacks)
  \/ AddMnemonicCB(1, "MOV", PREINST, "cbContinue", MaxCallbacks)
  \/ \E type \in {MEMORY_READ, MEMORY_WRITE} :
       AddMemAccessCB(1, type, "cbContinue", MaxCallbacks)
  \/ \E type \in {MEMORY_READ, MEMORY_WRITE} :
       /\ CallbackCount(vm[1]) < MaxCallbacks
       /\ AddMemRangeCB(1, 0, 1, type, "cbContinue", MaxMemCBID)
  \/ RunBegin(1, MaxCodeAddr)
  \/ \E inst \in OrderInsts : curInst[1] = NoInst /\ ExecInst(1, inst)

SpecOrder == Init /\ [][NextOrder]_vars

(***************************************************************************)
(* SpecCopy: two VMs, the second one a copy of the first; range callbacks  *)
(* are added to and deleted from both, and both run.                       *)
(***************************************************************************)
CopyInsts ==
  {i \in Instructions(1) :
     /\ i.address = 0 /\ Len(i.accs) = 1
     /\ \A j \in DOMAIN i.accs :
          /\ i.accs[j].accessAddress = 0 /\ i.accs[j].size = 1
          /\ i.accs[j].type = MEMORY_READ}

NextCopy ==
  \/ \E v \in VMIds :
       AddMemRangeCB(v, 0, 1, MEMORY_READ, "cbContinue", MaxMemCBID)
  \/ AddInstrRuleC(1, "cbContinue", 1)
  \/ \E v \in VMIds, id \in IssuedIds : DeleteInstrumentation(v, id)
  \/ CopyConstruct(1, 2)
  \/ CopyAssign(1, 2)
  \/ \E v \in VMIds : RunBegin(v, MaxCodeAddr)
  \/ \E v \in VMIds, inst \in CopyInsts :
       curInst[v] = NoInst /\ ExecInst(v, inst)

SpecCopy == Init /\ [][NextCopy]_vars

(***************************************************************************)
(* SpecRec: the operations that enable the recording of memory accesses,   *)
(* and deleteAllInstrumentations.                                          *)
(***************************************************************************)
NextRec ==
  \/ \E type \in MemoryAccessType : RecordMemoryAccess(1, type)
  \/ \E type \in ValidTypes :
       AddMemAccessCB(1, type, "cbContinue", MaxCallbacks)
  \/ \E type \in ValidTypes :
       /\ CallbackCount(vm[1]) < MaxCallbacks
       /\ AddMemAddrCB(1, 0, type, "cbContinue", MaxMemCBID)
  \/ \E type \in ValidTypes :
       /\ CallbackCount(vm[1]) < MaxCallbacks
       /\ AddMemRangeCB(1, 0, 1, type, "cbContinue", MaxMemCBID)
  \/ DeleteAllInstrumentations(1)

SpecRec == Init /\ [][NextRec]_vars

(***************************************************************************)
(* SpecBB: getBBMemoryAccess for every current instruction and sequence.   *)
(***************************************************************************)
NextBB ==
  \/ \E block \in BOOLEAN, start \in InstIds, end \in InstIds,
        instID \in InstIds, preInst \in BOOLEAN :
       BBBegin(block, start, end, instID, preInst)
  \/ BBStep
  \/ BBReturn

SpecBB == Init /\ [][NextBB]_vars

(***************************************************************************)
(* SpecRoute: range callbacks, instrumentation rules with callbacks, and   *)
(* deleteInstrumentation of engine ids and of virtual ids.                 *)
(***************************************************************************)
NextRoute ==
  \/ \E type \in {MEMORY_READ, MEMORY_WRITE} :
       /\ Len(vm[1].memCBInfos) < MaxEntries - 1
       /\ vm[1].instrRulesCounter <= MaxCallbacks
       /\ AddMemRangeCB(1, 0, 1, type, "cbContinue", MaxEntries)
  \/ /\ vm[1].instrRulesCounter <= MaxCallbacks
     /\ AddInstrRuleC(1, "cbContinue", 1)
  \/ \E id \in RouteIds : DeleteInstrumentation(1, id)

SpecRoute == Init /\ [][NextRoute]_vars

(***************************************************************************)
(* SpecEff: range callbacks that delete themselves or register another     *)
(* range callback while a gate dispatches, and the first instruction of a  *)
(* run.                                                                    *)
(***************************************************************************)
EffCbks == {"cbContinue", "cbDelSelf", "cbAdd"}

NextEff ==
  \/ \E cbk \in EffCbks :
       /\ Len(vm[1].memCBInfos) < MaxEntries
       /\ AddMemRangeCB(1, 0, 1, MEMORY_READ, cbk, MaxMemCBID)
  \/ \E id \in IssuedIds : DeleteInstrumentation(1, id)
  \/ RunBegin(1, MaxCodeAddr)
  \/ \E inst \in CopyInsts : curInst[1] = NoInst /\ ExecInstEff(1, inst)
  \/ RunEnd(1, TRUE)

SpecEff == Init /\ [][NextEff]_vars

(***************************************************************************)
(* SpecBlk: the break-to-host sequence of every temporary register on both *)
(* architectures, executed at every host address.                          *)
(***************************************************************************)
NextBlk ==
  \/ \E is_x86 \in BOOLEAN, temp \in Regs, base \in HostAddrs,
        reg \in Addr, slot \in Addr :
       BlkBegin(is_x86, temp, base, reg, slot)
  \/ BlkStep
  \/ BlkEnd

SpecBlk == Init /\ [][NextBlk]_vars

(***************************************************************************)
(* SpecReset: range callbacks, deleteInstrumentation of their ids,          *)
(* deleteAllInstrumentations, and the first instruction of a run.          *)
(***************************************************************************)
NextReset ==
  \/ \E type \in ValidTypes :
       /\ Len(vm[1].memCBInfos) < MaxEntries - 1
       /\ AddMemRangeCB(1, 0, 1, type, "cbContinue", MaxMemCBID)
  \/ \E id \in IssuedIds : DeleteInstrumentation(1, id)
  \/ DeleteAllInstrumentations(1)
  \/ RunBegin(1, MaxCodeAddr)
  \/ \E inst \in AggrInsts : curInst[1] = NoInst /\ ExecInst(1, inst)
  \/ RunEnd(1, curInst[1] # NoInst)

SpecReset == Init /\ [][NextReset]_vars

(***************************************************************************)
(* SpecCall: callA, call and callV on a GPR state set by setGPRState, with *)
(* every stack pointer, with and without retval, and the first             *)
(* instruction of the run they start.                                      *)
(***************************************************************************)
CallOps == {"callA", "call", "callV"}
CallInsts ==
  {[address |-> a, mnemonic |-> "MOV", accs |-> <<>>] :
     a \in {0, FAKE_RET_ADDR}}

NextCall ==
  \/ \E sp \in Addr : SetGPRState(sp)
  \/ AddCodeCB(1, PREINST, "cbContinue", 1)
  \/ \E op \in CallOps, retval \in {nullptr, "retval"},
        function \in CodeAddr, args \in {<<>>, <<1>>} :
       /\ call.state.stack = <<>>
       /\ vm[1].instrRulesCounter < MaxCallbacks
       /\ CallA(op, retval, function, args)
  \/ \E inst \in CallInsts : curInst[1] = NoInst /\ ExecInst(1, inst)
  \/ \E ret \in BOOLEAN, rv \in Addr : CallReturn(ret, rv)
  \/ CallDone

SpecCall == Init /\ [][NextCall]_vars

(***************************************************************************)
(* SpecAcc: addMemAccessCB with every value of type, one more bit than     *)
(* MEMORY_READ_WRITE has included, and deleteAllInstrumentations.          *)
(***************************************************************************)
AccTypes == SUBSET {"R", "W", "X"}

NextAcc ==
  \/ \E type \in AccTypes, cbk \in {"cbContinue", nullptr} :
       AddMemAccessCB(1, type, cbk, MaxCallbacks)
  \/ DeleteAllInstrumentations(1)

SpecAcc == Init /\ [][NextAcc]_vars

(***************************************************************************)
(* SpecMaps: getRemoteProcessMaps on every maps file of up to MaxLines     *)
(* lines, with and without full_path, and on a file that cannot be opened. *)
(***************************************************************************)
NextMaps ==
  \/ \E recs \in SeqsUpTo(MapRecs, MaxLines), full_path \in BOOLEAN,
        opened \in BOOLEAN :
       MapsOpen(recs, full_path, opened)
  \/ MapsLine
  \/ MapsReturn
  \/ MapsDone

SpecMaps == Init /\ [][NextMaps]_vars

(***************************************************************************)
(* Observations used by the properties.                                    *)
(***************************************************************************)
\* [accessAddress, accessAddress + size) meets [start, end) of entry e
AccOverlaps(a, e) ==
  a.accessAddress < e.end /\ e.start < a.accessAddress + a.size

ReadHit(e, accs) ==
  \E j \in DOMAIN accs : "R" \in accs[j].type /\ AccOverlaps(accs[j], e)

WriteHit(e, accs) ==
  \E j \in DOMAIN accs : "W" \in accs[j].type /\ AccOverlaps(accs[j], e)

\* number of invocations of registry entry idx for the last instruction
Invocations(v, idx) ==
  Cardinality({p \in (DOMAIN fired[v]) \X (1 .. MaxEntries + 1) :
                 /\ p[2] \in DOMAIN fired[v][p[1]].calls
                 /\ fired[v][p[1]].calls[p[2]].idx = idx})

GateEvents(v, gate) ==
  {n \in DOMAIN fired[v] : fired[v][n].cbk = gate}

\* the entries a gate has to invoke, from the accesses it was given
Matching(gate, infos, accs) ==
  IF gate = "memReadGate"
    THEN {i \in DOMAIN infos :
            infos[i].type = MEMORY_READ /\ ReadHit(infos[i], accs)}
    ELSE {i \in DOMAIN infos :
            \/ "W" \in infos[i].type /\ WriteHit(infos[i], accs)
            \/ infos[i].type = MEMORY_READ_WRITE /\ ReadHit(infos[i], accs)}

MaxRet(infos, idxs) ==
  IF idxs = {} THEN CONTINUE
  ELSE CHOOSE a \in {CbkRet(infos[i].cbk) : i \in idxs} :
         \A i \in idxs : CbkRet(infos[i].cbk) <= a

(***************************************************************************)
(* Properties.                                                             *)
(***************************************************************************)
\* C1: a deletion of a range-callback id that was returned by a registration
\* and not yet deleted returns true, and every deletion of an id after a
\* deletion of it returned true returns false.
C1_IdRoundTrip ==
  last.op = "deleteInstrumentation" =>
    /\ last.prior = "live" => last.ok
    /\ last.prior = "dead" => ~last.ok

\* C2: when the read gate runs on an instruction, an entry of type
\* MEMORY_READ is invoked iff one of the accesses with the READ bit overlaps
\* the range of the entry.
C2_ReadFilter ==
  \A n \in GateEvents(1, "memReadGate") :
    \A i \in DOMAIN vm[1].memCBInfos :
      vm[1].memCBInfos[i].type = MEMORY_READ =>
        (Invocations(1, i) > 0
           <=> ReadHit(vm[1].memCBInfos[i], fired[1][n].accs))

C2_Witness ==
  \E n \in GateEvents(1, "memReadGate") :
    /\ \E i \in DOMAIN vm[1].memCBInfos :
         vm[1].memCBInfos[i].type = MEMORY_READ /\ Invocations(1, i) = 1
    /\ \E i \in DOMAIN vm[1].memCBInfos :
         /\ vm[1].memCBInfos[i].type = MEMORY_READ
         /\ Invocations(1, i) = 0
         /\ WriteHit(vm[1].memCBInfos[i], curInst[1].accs)

\* C3: when the write gate runs on an instruction, an entry of type
\* MEMORY_WRITE is invoked iff a write access overlaps its range, an entry of
\* type MEMORY_READ_WRITE iff a read or a write access overlaps its range;
\* and no entry is invoked more than once for one instruction.
C3_WriteFilter ==
  /\ \A n \in GateEvents(1, "memWriteGate") :
       \A i \in DOMAIN vm[1].memCBInfos :
         LET e == vm[1].memCBInfos[i]
             accs == fired[1][n].accs
         IN /\ e.type = MEMORY_WRITE =>
                 (Invocations(1, i) > 0 <=> WriteHit(e, accs))
            /\ e.type = MEMORY_READ_WRITE =>
                 (Invocations(1, i) > 0
                    <=> (ReadHit(e, accs) \/ WriteHit(e, accs)))
  /\ \A i \in DOMAIN vm[1].memCBInfos : Invocations(1, i) <= 1

C3_Witness ==
  \E n \in GateEvents(1, "memWriteGate") :
    /\ GateEvents(1, "memReadGate") # {}
    /\ \E i \in DOMAIN vm[1].memCBInfos :
         /\ vm[1].memCBInfos[i].type = MEMORY_READ_WRITE
         /\ ReadHit(vm[1].memCBInfos[i], fired[1][n].accs)
         /\ WriteHit(vm[1].memCBInfos[i], fired[1][n].accs)
         /\ Invocations(1, i) = 1
    /\ \E i \in DOMAIN vm[1].memCBInfos :
         /\ vm[1].memCBInfos[i].type = MEMORY_READ
         /\ Invocations(1, i) = 1

\* C4: a gate invokes every entry that matches, each once, whatever the
\* earlier ones returned, and returns the largest of their results, which
\* is CONTINUE when none matches.
C4_Aggregation ==
  \A n \in DOMAIN fired[1] :
    fired[1][n].cbk \in {"memReadGate", "memWriteGate"} =>
      LET e == fired[1][n]
          infos == vm[1].memCBInfos
          m == Matching(e.cbk, infos, e.accs)
      IN /\ {e.calls[k].idx : k \in DOMAIN e.calls} = m
         /\ Len(e.calls) = Cardinality(m)
         /\ e.ret = MaxRet(infos, m)

C4_Witness ==
  \E n \in DOMAIN fired[1] :
    /\ fired[1][n].cbk \in {"memReadGate", "memWriteGate"}
    /\ Len(fired[1][n].calls) >= 2
    /\ fired[1][n].calls[1].ret = STOP
    /\ fired[1][n].calls[2].ret = BREAK_TO_VM
    /\ fired[1][n].ret = STOP

\* C5 as stated: a gate id is set iff the registry holds an entry that
\* needs that gate.
C5_GateIff ==
  /\ vm[1].memReadGateCBID # INVALID_EVENTID
       <=> \E i \in DOMAIN vm[1].memCBInfos :
             vm[1].memCBInfos[i].type = MEMORY_READ
  /\ vm[1].memWriteGateCBID # INVALID_EVENTID
       <=> \E i \in DOMAIN vm[1].memCBInfos :
             "W" \in vm[1].memCBInfos[i].type

\* C5 amended: a gate id is set whenever the registry holds an entry that
\* needs that gate; both are unset after deleteAllInstrumentations.
C5_GateInstalled ==
  /\ (\E i \in DOMAIN vm[1].memCBInfos :
        vm[1].memCBInfos[i].type = MEMORY_READ)
       => vm[1].memReadGateCBID # INVALID_EVENTID
  /\ (\E i \in DOMAIN vm[1].memCBInfos : "W" \in vm[1].memCBInfos[i].type)
       => vm[1].memWriteGateCBID # INVALID_EVENTID
  /\ last.op = "deleteAllInstrumentations" =>
       /\ vm[1].memReadGateCBID = INVALID_EVENTID
       /\ vm[1].memWriteGateCBID = INVALID_EVENTID

C5_Witness ==
  /\ \E i \in DOMAIN vm[1].memCBInfos :
       vm[1].memCBInfos[i].type = MEMORY_READ_WRITE
  /\ ~ \E i \in DOMAIN vm[1].memCBInfos :
         vm[1].memCBInfos[i].type = MEMORY_READ
  /\ vm[1].memReadGateCBID # INVALID_EVENTID
  /\ vm[1].memWriteGateCBID # INVALID_EVENTID
  /\ last.op = "deleteInstrumentation" /\ last.ok

\* C7: a deleteInstrumentation of an id with the most significant bit set
\* that matches no entry of the registry returns false and changes neither
\* the registry, nor the gate ids, nor memCBID, nor the logging level.
C7_NotFound ==
  [][(/\ last'.op = "deleteInstrumentation"
      /\ last'.id >= EVENTID_VIRTCB_MASK
      /\ \A i \in DOMAIN vm[1].memCBInfos :
           vm[1].memCBInfos[i].id # last'.id - EVENTID_VIRTCB_MASK)
     => /\ ~last'.ok
        /\ vm'[1].memCBInfos = vm[1].memCBInfos
        /\ vm'[1].memReadGateCBID = vm[1].memReadGateCBID
        /\ vm'[1].memWriteGateCBID = vm[1].memWriteGateCBID
        /\ vm'[1].memCBID = vm[1].memCBID
        /\ vm'[1].memoryLoggingLevel = vm[1].memoryLoggingLevel]_vars

\* a deletion of an id that was deleted before fails while the registry
\* still holds another entry
C7_Witness ==
  /\ last.op = "deleteInstrumentation"
  /\ last.id >= EVENTID_VIRTCB_MASK
  /\ ~last.ok
  /\ last.prior = "dead"
  /\ vm[1].memCBInfos # <<>>


\* C6: a registration called with a null callback, with a range whose
\* start is not below its end, or with a zero event mask returns
\* INVALID_EVENTID and changes neither the engine nor the registries.
C6_InvalidRejected ==
  [][last'.bad => (last'.id = INVALID_EVENTID /\ vm' = vm)]_vars


\* the rule run registers at stop, given the state s run was called in
StopRule(s, stop) ==
  [id |-> s.instrRulesCounter, cond |-> "AddressIs", arg |-> <<stop>>,
   cbk |-> "stopCallback", pos |-> PREINST, data |-> 0, ord |-> NextOrd(s)]

\* C8: while the engine runs, the VM is the VM run was called on plus one
\* PREINST address rule at stop calling stopCallback, whose id run keeps;
\* once run has returned, that rule is gone and the rules, the registry
\* entries and the gate ids are those run was called with; outside of run
\* no stop rule is registered, however many runs were made.
C8_RunOneShot ==
  \A v \in VMIds :
    /\ (alive[v] /\ pc[v] \in {"engine", "stopped"}) =>
         /\ stopCB[v] = preRun[v].instrRulesCounter
         /\ \E stop \in CodeAddr :
              vm[v] = [preRun[v] EXCEPT
                         !.instrRules = Append(@, StopRule(preRun[v], stop)),
                         !.instrRulesCounter = @ + 1]
    /\ (alive[v] /\ pc[v] = "host") =>
         \A i \in DOMAIN vm[v].instrRules :
            vm[v].instrRules[i].cbk # "stopCallback"
    /\ (last.op = "run" /\ last.vm = v) =>
         /\ last.id = preRun[v].instrRulesCounter
         /\ vm[v] = [preRun[v] EXCEPT !.instrRulesCounter = @ + 1]

\* a run has returned that was not the first one, on a VM holding a range
\* callback, its gate and a code callback
C8_Witness ==
  /\ last.op = "run" /\ last.vm = 1
  /\ vm[1].memCBInfos # <<>>
  /\ vm[1].memReadGateCBID # INVALID_EVENTID
  /\ \E i \in DOMAIN vm[1].instrRules : vm[1].instrRules[i].cbk = "cbBreak"
  /\ preRun[1].instrRulesCounter
       > Len(preRun[1].instrRules) + Len(preRun[1].vmCallbacks)


\* the callbacks event e invokes, in the order of their invocation: the
\* entries its gate calls, or the callback of its rule
Invoked(e) ==
  IF e.cbk \in {"memReadGate", "memWriteGate"}
    THEN [k \in DOMAIN e.calls |->
            [pos |-> e.pos, ord |-> e.calls[k].ord, rule |-> e.ord,
             range |-> TRUE]]
    ELSE <<[pos |-> e.pos, ord |-> e.ord, rule |-> e.ord, range |-> FALSE]>>

RECURSIVE InvokedFrom(_, _)
InvokedFrom(events, n) ==
  IF n > Len(events) THEN <<>>
  ELSE Invoked(events[n]) \o InvokedFrom(events, n + 1)

\* the trace of the invocations of VM v at the last instruction
Trace(v) == InvokedFrom(fired[v], 1)

\* C9 as stated: of two callbacks of one position invoked at an
\* instruction, the one registered first is invoked first.
C9_RegistrationOrder ==
  LET t == Trace(1)
  IN \A i \in DOMAIN t : \A j \in DOMAIN t :
       (i < j /\ t[i].pos = t[j].pos) => t[i].ord < t[j].ord

\* C9 amended: PREINST invocations precede POSTINST ones, the read gate is
\* a PREINST rule and the write gate a POSTINST rule; two callbacks of one
\* position are invoked in the order of their registration when both are
\* engine rules or both are range callbacks, and a range callback and an
\* engine rule are invoked in the order in which the gate and the rule
\* were registered.
C9_RuleAndGateOrder ==
  LET t == Trace(1)
  IN /\ \A i \in DOMAIN t : \A j \in DOMAIN t :
          i < j =>
            /\ ~(t[i].pos = POSTINST /\ t[j].pos = PREINST)
            /\ (t[i].pos = t[j].pos /\ t[i].range = t[j].range)
                 => t[i].ord < t[j].ord
            /\ (t[i].pos = t[j].pos /\ t[i].range # t[j].range)
                 => t[i].rule < t[j].rule
     /\ \A n \in DOMAIN fired[1] :
          /\ fired[1][n].cbk = "memReadGate" => fired[1][n].pos = PREINST
          /\ fired[1][n].cbk = "memWriteGate" => fired[1][n].pos = POSTINST

\* two range callbacks and then a code callback were invoked at one
\* position, the code callback having been registered between the two
C9_Witness ==
  LET t == Trace(1)
  IN \E i \in DOMAIN t : \E j \in DOMAIN t : \E k \in DOMAIN t :
       /\ i < j /\ j < k
       /\ t[i].pos = t[k].pos /\ t[j].pos = t[k].pos
       /\ t[i].range /\ t[j].range /\ ~t[k].range
       /\ t[i].ord < t[k].ord /\ t[k].ord < t[j].ord

\* C10: the gates of a VM invoke the range callbacks of the registry of
\* that VM, whatever is added to or deleted from another VM.
C10_OwnRegistry ==
  \A v \in VMIds : \A n \in DOMAIN fired[v] :
    /\ fired[v][n].cbk = "memReadGate" =>
         fired[v][n].calls
           = memReadGate(vm[v].memCBInfos, fired[v][n].accs).calls
    /\ fired[v][n].cbk = "memWriteGate" =>
         fired[v][n].calls
           = memWriteGate(vm[v].memCBInfos, fired[v][n].accs).calls


\* C11: a range callback whose deletion returned true is not invoked by
\* any later dispatch of a gate of its VM.
C11_DeletedNeverInvoked ==
  \A v \in VMIds : \A n \in DOMAIN fired[v] :
    \A k \in DOMAIN fired[v][n].calls :
      issued[v][fired[v][n].calls[k].id + EVENTID_VIRTCB_MASK] # "dead"


\* number of engine rules of VM state s whose condition is c
RuleCount(s, c) ==
  Cardinality({i \in DOMAIN s.instrRules : s.instrRules[i].cond = c})

\* the directions the callbacks registered in s need recorded
NeededLevel(s) ==
  UNION ({IF s.instrRules[i].cond = "DoesReadAccess" THEN MEMORY_READ
          ELSE IF s.instrRules[i].cond = "DoesWriteAccess" THEN MEMORY_WRITE
          ELSE IF s.instrRules[i].cond = "OrReadWriteAccess"
            THEN MEMORY_READ_WRITE
          ELSE {} : i \in DOMAIN s.instrRules}
         \cup {s.memCBInfos[i].type : i \in DOMAIN s.memCBInfos})

Recorded(s) ==
  /\ RuleCount(s, "MemAccessRead")
       = (IF "R" \in s.memoryLoggingLevel THEN 1 ELSE 0)
  /\ RuleCount(s, "MemAccessWrite")
       = (IF "W" \in s.memoryLoggingLevel THEN 1 ELSE 0)
  /\ NeededLevel(s) \subseteq s.memoryLoggingLevel

C13_BBScope ==
  LET bound == Min(bb.end, bb.instID)
  IN /\ (bb.pc # "idle" /\ ~bb.block) =>
          (bb.pc = "done" /\ bb.memAccess = <<>>)
     /\ bb.block =>
          /\ \A i \in DOMAIN bb.memAccess :
               /\ bb.memAccess[i].id = bb.start + i - 1
               /\ bb.memAccess[i].id <= bound
               /\ bb.memAccess[i].after
                    = (bb.memAccess[i].id # bb.instID \/ ~bb.preInst)
          /\ bb.pc = "done" =>
               Len(bb.memAccess)
                 = (IF bb.start <= bound THEN bound - bb.start + 1 ELSE 0)


\* the rules or entries of seq without their registration ranks
StripOrd(seq) ==
  [i \in DOMAIN seq |->
     [f \in (DOMAIN seq[i]) \ {"ord"} |-> seq[i][f]]]

\* C14: deleteInstrumentation(id) of an id with the most significant bit
\* set leaves the engine rules, the VM event callbacks and instrCBInfos as
\* they are; of an id with that bit clear it leaves the registry, memCBID
\* and the gate ids as they are and removes from instrCBInfos exactly the
\* pairs of that id; an id addMemRangeCB returns on success has the bit
\* set.
C14_IdRouting ==
  [][/\ (last'.op = "deleteInstrumentation" /\ last'.vm = 1) =>
          IF last'.id >= EVENTID_VIRTCB_MASK
            THEN /\ StripOrd(vm'[1].instrRules) = StripOrd(vm[1].instrRules)
                 /\ vm'[1].vmCallbacks = vm[1].vmCallbacks
                 /\ vm'[1].instrCBInfos = vm[1].instrCBInfos
                 /\ vm'[1].instrRulesCounter = vm[1].instrRulesCounter
            ELSE /\ StripOrd(vm'[1].memCBInfos) = StripOrd(vm[1].memCBInfos)
                 /\ vm'[1].memCBID = vm[1].memCBID
                 /\ vm'[1].memReadGateCBID = vm[1].memReadGateCBID
                 /\ vm'[1].memWriteGateCBID = vm[1].memWriteGateCBID
                 /\ vm'[1].instrCBInfos
                      = SelectSeq(vm[1].instrCBInfos,
                                  LAMBDA x : x.id # last'.id)
     /\ (last'.op \in {"addMemRangeCB", "addMemAddrCB"} /\ last'.ok) =>
          last'.id >= EVENTID_VIRTCB_MASK]_vars

\* a deletion by an id with the bit clear has removed an engine rule of a
\* VM that holds a range callback
C14_Witness ==
  /\ last.op = "deleteInstrumentation" /\ last.ok
  /\ last.id < EVENTID_VIRTCB_MASK
  /\ vm[1].memCBInfos # <<>>

\* C19: the gate of every registry entry is registered in the engine, and
\* a gate id that is recorded names an engine rule calling that gate.
C19_GatePresent ==
  LET s == vm[1]
      gate(id, cbk) ==
        \E i \in DOMAIN s.instrRules :
          s.instrRules[i].id = id /\ s.instrRules[i].cbk = cbk
  IN /\ \A i \in DOMAIN s.memCBInfos :
          IF s.memCBInfos[i].type = MEMORY_READ
            THEN gate(s.memReadGateCBID, "memReadGate")
            ELSE gate(s.memWriteGateCBID, "memWriteGate")
     /\ s.memReadGateCBID # INVALID_EVENTID =>
          gate(s.memReadGateCBID, "memReadGate")
     /\ s.memWriteGateCBID # INVALID_EVENTID =>
          gate(s.memWriteGateCBID, "memWriteGate")


\* C16: a call of addMemRangeCB (or of addMemAddrCB, which forwards to it)
\* returns INVALID_EVENTID iff it appended no entry to the registry.
C16_InvalidIffNoEntry ==
  [][(last'.op \in {"addMemRangeCB", "addMemAddrCB"} /\ last'.vm = 1) =>
       ((last'.id = INVALID_EVENTID)
          <=> Len(vm'[1].memCBInfos) = Len(vm[1].memCBInfos))]_vars

\* C17: no two entries of the registry carry the same id, and an id that
\* addMemRangeCB returns was never returned before.
C17_OneIdOneEntry ==
  [][/\ \A i, j \in DOMAIN vm'[1].memCBInfos :
          vm'[1].memCBInfos[i].id = vm'[1].memCBInfos[j].id => i = j
     /\ (/\ last'.op \in {"addMemRangeCB", "addMemAddrCB"}
         /\ last'.vm = 1 /\ last'.id # INVALID_EVENTID) =>
          issued[1][last'.id] = "none"]_vars


C18_RobustDispatch ==
  \A n \in DOMAIN fired[1] :
    LET e == fired[1][n]
    IN e.cbk \in {"memReadGate", "memWriteGate"} =>
         \A i \in Matching(e.cbk, e.before, e.accs) :
           (/\ e.before[i].cbk = "cbContinue"
            /\ \E j \in DOMAIN e.after : e.after[j].id = e.before[i].id)
             => Cardinality({k \in DOMAIN e.calls :
                               e.calls[k].id = e.before[i].id}) = 1


\* sum of the encoded sizes of the instructions of a sequence
RECURSIVE SizeOf(_, _)
SizeOf(insts, is_x86) ==
  IF insts = <<>> THEN 0
  ELSE EncodedSize(Head(insts), is_x86) + SizeOf(Tail(insts), is_x86)

\* C21: the sequence of getBreakToHost(temp) is a load of the host address
\* of its first instruction plus 29 (22 on x86) into temp, a store of temp
\* into hostState.selector, a load of temp from its slot of the Context,
\* and a jump to the epilogue; when the epilogue is reached the selector
\* is the address of the first byte after the sequence and temp holds the
\* value of its slot.
C21_BreakToHost ==
  blk.pc # "idle" =>
    /\ Len(blk.insts) = 4
    /\ blk.insts[1].kind = "HostPCRel" /\ blk.insts[1].reg = blk.temp
    /\ blk.insts[1].offset = (IF blk.is_x86 THEN 22 ELSE 29)
    /\ blk.insts[2].kind = "SaveReg" /\ blk.insts[2].reg = blk.temp
    /\ blk.insts[2].offset = "hostState.selector"
    /\ blk.insts[3].kind = "LoadReg" /\ blk.insts[3].reg = blk.temp
    /\ blk.insts[3].offset = blk.temp
    /\ blk.insts[4].kind = "JmpEpilogue"
    /\ blk.pc = "epilogue" =>
         /\ blk.selector = blk.base + SizeOf(blk.insts, blk.is_x86)
         /\ blk.selector = blk.hostPC
         /\ blk.reg = blk.slot

\* the epilogue is reached on x86-64 with a temporary whose value on entry
\* differs from the one saved in its slot
C21_Witness ==
  /\ blk.pc = "epilogue" /\ ~blk.is_x86
  /\ blk.base > 0 /\ blk.slot > 0
  /\ blk.selector = blk.base + 29


C23_FailedAddNoChange ==
  [][(/\ last'.op \in {"addMemRangeCB", "addMemAddrCB"} /\ last'.vm = 1
      /\ last'.id = INVALID_EVENTID) =>
       /\ vm'[1].memCBInfos = vm[1].memCBInfos
       /\ vm'[1].memCBID = vm[1].memCBID
       /\ vm'[1].memReadGateCBID = vm[1].memReadGateCBID
       /\ vm'[1].memWriteGateCBID = vm[1].memWriteGateCBID
       /\ vm'[1].memoryLoggingLevel = vm[1].memoryLoggingLevel
       /\ vm'[1].instrRules = vm[1].instrRules]_vars


\* C24: addMemAddrCB(a, type, cb) with a type that has the READ or the
\* WRITE bit and a non-null cb returns an id other than INVALID_EVENTID
\* and appends an entry of range [a, a + 1) to the registry, for every
\* address a.
C24_OneByteEveryAddress ==
  [][(last'.op = "addMemAddrCB" /\ last'.vm = 1 /\ ~last'.bad) =>
       /\ last'.id # INVALID_EVENTID
       /\ Len(vm'[1].memCBInfos) = Len(vm[1].memCBInfos) + 1
       /\ LET e == vm'[1].memCBInfos[Len(vm'[1].memCBInfos)]
          IN e.end = e.start + 1]_vars


\* C25: a call of callA, call or callV with a stack pointer of 0 returns
\* false and changes neither the VM, nor the GPR state, nor *retval, and
\* the engine does not run; with another stack pointer it pushes the
\* arguments and the return address 42, registers the stop rule at 42 and
\* enters the engine at function; when the engine returns, the call
\* returns what the engine returned and *retval is the return register if
\* retval is not null, and is not written otherwise.
C25_CallA ==
  [][/\ (call.pc = "idle" /\ call'.pc = "done") =>
          /\ call.state.sp = 0 /\ ~call'.res
          /\ vm' = vm /\ pc' = pc /\ fired' = fired /\ stopCB' = stopCB
          /\ call'.state = call.state /\ call'.mem = "unset"
     /\ (call.pc = "idle" /\ call'.pc = "run") =>
          /\ call.state.sp # 0
          /\ call'.state =
               [call.state EXCEPT
                  !.stack = <<FAKE_RET_ADDR>> \o call'.args \o @]
          /\ pc'[1] = "engine" /\ call'.start = call'.function
          /\ vm'[1].instrRules =
               Append(vm[1].instrRules, StopRule(vm[1], FAKE_RET_ADDR))
     /\ (call.pc = "run" /\ call'.pc = "done") =>
          /\ call'.res = last'.ok /\ last'.op = "run"
          /\ call.retval # nullptr => call'.mem = call'.state.ret
          /\ call.retval = nullptr => call'.mem = "unset"]_vars

\* a call with a stack pointer of 0 has returned, and so has one with
\* another stack pointer and a retval
C25_Witness ==
  /\ call.pc = "done" /\ call.res /\ call.retval # nullptr
  /\ call.mem = call.state.ret /\ call.mem # 0
  /\ call.entry.sp # 0 /\ call.args # <<>>


\* the rules of a VM state that call a callback
CallbackRules(s) == SelectSeq(s.instrRules, LAMBDA r : r.cbk # "record")

MapOf(rec, full_path) ==
  [start |-> rec.start, end |-> rec.end,
   permission |->
     {f \in {"PF_READ", "PF_WRITE", "PF_EXEC"} :
        \E i \in DOMAIN rec.perms :
          \/ f = "PF_READ" /\ rec.perms[i] = "r"
          \/ f = "PF_WRITE" /\ rec.perms[i] = "w"
          \/ f = "PF_EXEC" /\ rec.perms[i] = "x"},
   name |-> IF full_path \/ rec.name = <<>> THEN rec.name
            ELSE LET sl == {i \in DOMAIN rec.name : rec.name[i] = "/"}
                     k == CHOOSE i \in sl : \A j \in sl : j <= i
                 IN [i \in 1 .. Len(rec.name) - k |-> rec.name[k + i]]]

\* C27: getRemoteProcessMaps returns one MemoryMap for each line of the
\* maps file, in the order of the file, whatever the length of the line:
\* the range, the permissions and the name (the path, or its part after
\* the last '/' without full_path) of the mapping of the line; and the
\* empty vector when the file cannot be opened.
C27_OneMapPerLine ==
  pmaps.pc = "done" =>
    IF pmaps.opened
      THEN /\ Len(pmaps.maps) = Len(pmaps.recs)
           /\ \A i \in DOMAIN pmaps.maps :
                pmaps.maps[i] = MapOf(pmaps.recs[i], pmaps.full_path)
      ELSE pmaps.maps = <<>>

====
